---- MODULE Spec2Model ----
(***************************************************************************)
(* nmock (app/main.go): a mock HTTP server whose routing table is compiled *)
(* from a base configuration and a set of plugin bundles, and recompiled   *)
(* on file events and admin calls.                                         *)
(*                                                                         *)
(* Paths are sequences of segments (<<"x","1">> is /x/1); a segment in     *)
(* braces is a gorilla/mux path variable.  A plugin object is a record;    *)
(* the map ms.plugins holds pointers, so a handler that looked a plugin    *)
(* up keeps either an alias of the map entry (while the map still holds    *)
(* that object) or, once a rescan has replaced the map, the detached       *)
(* object itself, which nothing writes any more.                           *)
(***************************************************************************)
EXTENDS Integers, Sequences, FiniteSets, TLC

\* ------------------------------------------------------------------ bounds

\* Request-handling goroutines of the HTTP server.
NumHandlers == 2
\* Inputs from outside (requests and file edits) in one behaviour.
MaxOps == 2

\* Goroutines: the one running Start, the watcher, the request handlers.
Main == 0 - 1
Watcher == 0
Handlers == 1..NumHandlers
Procs == {Main, Watcher} \cup Handlers
\* The value of the mutex when nobody holds it.
Unlocked == 0 - 2

\* ------------------------------------------------------------------ data

StatusOK == 200
StatusNotFound == 404
StatusInternalServerError == 500

None == [kind |-> "none"]

\* strings.ToUpper on the method strings the model uses.
ToUpper(m) ==
  CASE m = "get" -> "GET"
    [] m = "Get" -> "GET"
    [] m = "post" -> "POST"
    [] m = "Post" -> "POST"
    [] OTHER -> m

\* A segment of a mux path template that is a variable: {name} matches any
\* one non-empty segment.
IsVarSeg(s) == s \in {"{name}", "{id}"}

\* The path matcher of a route registered with HandleFunc(tpl, ...).
PathMatches(tpl, path) ==
  /\ Len(tpl) = Len(path)
  /\ \A i \in 1..Len(tpl) : IsVarSeg(tpl[i]) \/ tpl[i] = path[i]

\* The Response field of a declaration (interface{}): nil, a string, or any
\* other JSON value, named by a token.
NilValue == [kind |-> "nil", val |-> ""]
StringValue(s) == [kind |-> "string", val |-> s]
JsonValue(v) == [kind |-> "json", val |-> v]

\* The Headers field of a declaration (map[string]string): nil, or a map
\* from the keys as written to the values.  The declared keys of the model
\* stay distinct under canonicalization.
NoHeaders == [k \in {} |-> ""]

\* textproto.CanonicalMIMEHeaderKey, which Header.Set and Header.Get apply
\* to the key, on the keys the model uses.
CanonicalKey(k) ==
  CASE k = "content-type" -> "Content-Type"
    [] k = "x-custom-header" -> "X-Custom-Header"
    [] OTHER -> k

\* w.Header() after Set(key, value): the header map of a response is keyed
\* by canonical keys.
HeaderSet(hdr, key, value) ==
  [c \in DOMAIN hdr \cup {CanonicalKey(key)} |->
     IF c = CanonicalKey(key) THEN value ELSE hdr[c]]

\* w.Header().Get(key): "" when the key is not there.
HeaderGet(hdr, key) ==
  IF CanonicalKey(key) \in DOMAIN hdr THEN hdr[CanonicalKey(key)] ELSE ""

\* Endpoint: the fields of a declaration.  status_code is 0 or a status code
\* WriteHeader sends as the final status of a response.
Ep(path, method, status, response, delay) ==
  [path |-> path, method |-> method, status_code |-> status,
   headers |-> NoHeaders, response |-> response, delay |-> delay]

\* The declaration ep with the header map headers.
WithHeaders(ep, headers) == [ep EXCEPT !.headers = headers]

\* A compiled route: the template and method it was registered with, the
\* handler (its kind and, for a declared endpoint, the captured copy ep) and
\* the source label.
Route(kind, tpl, method, ep, source) ==
  [kind |-> kind, path |-> tpl, method |-> method, ep |-> ep, source |-> source]

\* The four admin routes, in registration order.
setupManagementAPI ==
  << Route("admin_list", <<"_admin", "plugins">>, "GET", None, "admin"),
     Route("admin_get", <<"_admin", "plugins", "{name}">>, "GET", None, "admin"),
     Route("admin_toggle", <<"_admin", "plugins", "{name}", "toggle">>, "POST", None, "admin"),
     Route("admin_reload", <<"_admin", "reload">>, "POST", None, "admin") >>

HealthRoute == Route("health", <<"health">>, "GET", None, "builtin")

\* addEndpoint registering the method as the declaration writes it.
addEndpointMethodAsWritten(endpoint, source) ==
  Route("endpoint", endpoint.path, endpoint.method, endpoint, source)

\* addEndpoint: one route for the declaration, method upper-cased.
addEndpoint(endpoint, source) ==
  Route("endpoint", endpoint.path, ToUpper(endpoint.method), endpoint, source)

\* The routes of a sequence of declarations, in declared order.
RECURSIVE AddAll(_, _)
AddAll(eps, source) ==
  IF eps = <<>> THEN <<>>
  ELSE <<addEndpoint(Head(eps), source)>> \o AddAll(Tail(eps), source)

\* PluginRoutes registering the endpoints of every plugin, enabled or not.
RECURSIVE PluginRoutesOfAll(_, _)
PluginRoutesOfAll(plugs, order) ==
  IF order = <<>> THEN <<>>
  ELSE AddAll(plugs[Head(order)].endpoints, Head(order))
       \o PluginRoutesOfAll(plugs, Tail(order))

\* The routes of the enabled plugins, visited in the order `order` (a
\* sequence of plugin names: Go's map iteration order).
RECURSIVE PluginRoutes(_, _)
PluginRoutes(plugs, order) ==
  IF order = <<>> THEN <<>>
  ELSE (IF plugs[Head(order)].enabled
          THEN AddAll(plugs[Head(order)].endpoints, Head(order))
          ELSE <<>>)
       \o PluginRoutes(plugs, Tail(order))

\* A router: its routes in registration order and whether the NotFoundHandler
\* is set.
NewRouter == [routes |-> <<>>, notFound |-> FALSE]

\* Compile with the plugin routes registered before the base routes.
CompilePluginsFirst(cfg, plugs, order) ==
  [routes |-> setupManagementAPI \o <<HealthRoute>>
              \o PluginRoutes(plugs, order)
              \o AddAll(cfg.endpoints, "main"),
   notFound |-> TRUE]

\* Compile with the health route registered after the declared routes.
CompileHealthLast(cfg, plugs, order) ==
  [routes |-> setupManagementAPI
              \o AddAll(cfg.endpoints, "main")
              \o PluginRoutes(plugs, order)
              \o <<HealthRoute>>,
   notFound |-> TRUE]

\* The router SetupRoutes has built when it returns.
Compile(cfg, plugs, order) ==
  [routes |-> setupManagementAPI \o <<HealthRoute>>
              \o AddAll(cfg.endpoints, "main")
              \o PluginRoutes(plugs, order),
   notFound |-> TRUE]

\* The permutations of a finite set, as sequences.
Perms(S) ==
  {f \in [1..Cardinality(S) -> S] : \A i, j \in 1..Cardinality(S) : f[i] = f[j] => i = j}

\* mux Router.Match: the first route whose path and method both match; when
\* none does, a route whose path matched with another method makes the
\* result "method not allowed", otherwise the NotFoundHandler is used.
RECURSIVE FirstMatch(_, _, _)
FirstMatch(routes, method, path) ==
  IF routes = <<>> THEN None
  ELSE IF PathMatches(Head(routes).path, path) /\ Head(routes).method = method
    THEN Head(routes)
    ELSE FirstMatch(Tail(routes), method, path)

MethodMismatch(routes, method, path) ==
  \E i \in 1..Len(routes) :
    PathMatches(routes[i].path, path) /\ routes[i].method # method

Match(router, method, path) ==
  LET r == FirstMatch(router.routes, method, path) IN
  IF r # None THEN r
  ELSE IF MethodMismatch(router.routes, method, path)
    THEN [kind |-> "method_not_allowed"]
    ELSE [kind |-> "not_found", custom |-> router.notFound]

\* ------------------------------------------------------------ documents

Absent == [kind |-> "absent"]
Malformed == [kind |-> "malformed"]

\* A well-formed plugin file: name may be "".
PluginDoc(name, enabled, endpoints) ==
  [kind |-> "plugin", name |-> name, enabled |-> enabled, endpoints |-> endpoints]

\* A well-formed configuration file: port and plugins_dir may be "".
ConfigDoc(port, dir, endpoints) ==
  [kind |-> "config", port |-> port, plugins_dir |-> dir, endpoints |-> endpoints]

\* A Plugin object in memory.
Plugin(name, enabled, endpoints) ==
  [name |-> name, enabled |-> enabled, endpoints |-> endpoints]

\* json.MarshalIndent of a Plugin: the document savePlugin writes.
MarshalPlugin(plugin) ==
  PluginDoc(plugin.name, plugin.enabled, plugin.endpoints)

\* A file path: directory and base name (without the .json suffix for plugin
\* files; isJson says whether the name ends in .json).
Path(dir, base, isJson) == [dir |-> dir, base |-> base, json |-> isJson]

configDir == "."
configPath == Path(configDir, "config", TRUE)

\* strings.HasPrefix(name, dir) for the paths of the model: a file inside
\* dir, or a file of the configuration directory whose own name starts with
\* the directory's name.
HasPrefix(path, dir) ==
  \/ path.dir = dir
  \/ path.dir = configDir /\ path.base = dir

\* The file bases of a directory in os.ReadDir order (sorted by filename).
FileOrder == <<"a", "z">>
FileBases == {FileOrder[i] : i \in 1..Len(FileOrder)}

\* ---------------------------------------------------------------- state

VARIABLES
  config,      \* ms.config: None (nil) or the loaded configuration
  pluginsDir,  \* ms.pluginsDir
  plugins,     \* ms.plugins: plugin name -> Plugin object
  router,      \* ms.router: the router the server object points at
  served,      \* the router handed to http.ListenAndServe (None before)
  mutex,       \* ms.mutex: Unlocked or the goroutine holding the write lock
  cfgFile,     \* content of the configuration file
  fs,          \* directory -> [kind, files: base -> document]
  watched,     \* directories the fsnotify watcher has added
  events,      \* filesystem events not yet received by the watcher
  op,          \* per goroutine: the operation it is running
  pc,          \* per goroutine: the step of that operation it is at
  loc,         \* per goroutine: its local variables
  ops          \* inputs from outside still to come

vars == <<config, pluginsDir, plugins, router, served, mutex, cfgFile, fs,
          watched, events, op, pc, loc, ops>>

\* Local variables of a goroutine: the request, the route it was matched to,
\* the plugin pointer of the toggle handler, the path and bytes of savePlugin,
\* the value the toggle's own flip gave the flag, the watcher's event, and
\* the response written.  Three fields of req are not in the program:
\* latest records what the table of the last completed rebuild would have
\* matched the request to, at the number of inputs still to come at arrival,
\* and before, for a toggle of a loaded plugin arriving while nothing else is
\* at work, the plugin's flag and the server's table of that moment.
NoLoc ==
  [req |-> None, hit |-> None, plugin |-> None, pluginPath |-> None,
   data |-> None, flipped |-> None, event |-> None, resp |-> None]

\* Nobody is inside SetupRoutes: ms.router is the table the last rebuild that
\* returned has compiled.
NoRebuildRunning == \A p \in Procs : pc[p] # "SetupRoutes.add"

\* The watcher has nothing to do and the lock is free.
WatcherQuiet ==
  /\ pc[Watcher] \in {"setup", "wait"}
  /\ events = {}
  /\ mutex = Unlocked

\* No handler is at work.
HandlersQuiet == \A g \in Handlers : op[g] = "idle" \/ pc[g] = "done"

\* The object a toggle handler's plugin pointer refers to.
Deref(ref) ==
  IF ref.kind = "live" THEN plugins[ref.name] ELSE ref.obj

\* What becomes of the handlers' plugin pointers when the map is replaced:
\* the object is no longer in the map, the pointer keeps it.
Detach(l) ==
  [p \in Procs |->
     IF l[p].plugin.kind = "live"
       THEN [l[p] EXCEPT !.plugin = [kind |-> "snap", obj |-> plugins[l[p].plugin.name]]]
       ELSE l[p]]

\* ------------------------------------------------------------ file system

DirKind(dir) == IF dir \in DOMAIN fs THEN fs[dir].kind ELSE "missing"

\* An fsnotify event, delivered only for a watched directory.
Event(path, what) == [name |-> path, op |-> what]

Notify(path, what) ==
  IF path.dir \in watched THEN events \cup {Event(path, what)} ELSE events

\* loadSinglePlugin keeping the plugin a name already has in the map.
loadSinglePluginKeepFirst(map, base, doc) ==
  IF doc.kind # "plugin" THEN map
  ELSE LET name == IF doc.name = "" THEN base ELSE doc.name
           obj == Plugin(name, doc.enabled, doc.endpoints)
       IN [n \in DOMAIN map \cup {name} |-> IF n \in DOMAIN map THEN map[n] ELSE obj]

\* loadSinglePlugin on one file of the directory: the map with the file's
\* plugin added under its name, or the map unchanged for an unparseable file.
loadSinglePlugin(map, base, doc) ==
  IF doc.kind # "plugin" THEN map
  ELSE LET name == IF doc.name = "" THEN base ELSE doc.name
           obj == Plugin(name, doc.enabled, doc.endpoints)
       IN [n \in DOMAIN map \cup {name} |-> IF n = name THEN obj ELSE map[n]]

\* The loop of LoadPlugins over the directory listing.
RECURSIVE LoadFiles(_, _, _)
LoadFiles(map, files, order) ==
  IF order = <<>> THEN map
  ELSE LoadFiles(
         IF files[Head(order)].kind = "absent" THEN map
         ELSE loadSinglePlugin(map, Head(order), files[Head(order)]),
         files, Tail(order))

EmptyMap == [n \in {} |-> None]

\* LoadPlugins after the map was cleared: the error flag and the map it leaves.
ScanResult(dir) ==
  CASE DirKind(dir) = "missing" -> [err |-> FALSE, map |-> EmptyMap]
    [] DirKind(dir) = "notdir" -> [err |-> TRUE, map |-> EmptyMap]
    [] OTHER -> [err |-> FALSE, map |-> LoadFiles(EmptyMap, fs[dir].files, FileOrder)]

\* ParseConfig without the defaults.
ParseConfigAsIs(doc) ==
  [port |-> doc.port, plugins_dir |-> doc.plugins_dir, endpoints |-> doc.endpoints]

\* LoadConfig's parse and defaults: the Config object of a document.
ParseConfig(doc) ==
  [port |-> IF doc.port = "" THEN "9000" ELSE doc.port,
   plugins_dir |-> IF doc.plugins_dir = "" THEN "plugins" ELSE doc.plugins_dir,
   endpoints |-> doc.endpoints]

\* os.MkdirAll(dir): creates a missing directory, fails on a non-directory.
MkdirAll(dir) ==
  IF dir \in DOMAIN fs /\ fs[dir].kind = "missing"
    THEN [fs EXCEPT ![dir].kind = "dir"]
    ELSE fs

\* os.WriteFile(path, data): fails when the directory is not there.
WriteFile(path, data) ==
  IF DirKind(path.dir) = "dir"
    THEN [fs EXCEPT ![path.dir].files[path.base] = data]
    ELSE fs

\* ------------------------------------------------------------ responses

\* WriteBody with every non-nil response passed to the JSON encoder.
WriteBodyEncodeAll(response) ==
  CASE response.kind = "nil" -> [enc |-> "none", val |-> ""]
    [] OTHER -> [enc |-> "json", val |-> response.val]

\* The body the handler writes for a declared response: nothing for nil, the
\* string itself for a string, the JSON encoding otherwise.
WriteBody(response) ==
  CASE response.kind = "nil" -> [enc |-> "none", val |-> ""]
    [] response.kind = "string" -> [enc |-> "verbatim", val |-> response.val]
    [] OTHER -> [enc |-> "json", val |-> response.val]

\* The loop over ep.Headers: every declared pair is Set on the response.
RECURSIVE SetAll(_, _, _)
SetAll(hdr, headers, keys) ==
  IF keys = {} THEN hdr
  ELSE LET k == CHOOSE x \in keys : TRUE
       IN SetAll(HeaderSet(hdr, k, headers[k]), headers, keys \ {k})

\* The headers the handler has set when it calls WriteHeader: the declared
\* ones, then Content-Type application/json when Get("Content-Type") is "".
WriteHeaders(ep) ==
  LET declared == SetAll(NoHeaders, ep.headers, DOMAIN ep.headers)
  IN IF HeaderGet(declared, "Content-Type") = ""
       THEN HeaderSet(declared, "Content-Type", "application/json")
       ELSE declared

\* WriteStatus without the default for a status code of 0.
WriteStatusAsDeclared(ep) == ep.status_code

\* The status the handler passes to WriteHeader.
WriteStatus(ep) == IF ep.status_code = 0 THEN StatusOK ELSE ep.status_code

\* A call the handler makes on its ResponseWriter.
Call(name, key, value) == [call |-> name, key |-> key, value |-> value]

\* The Header().Set calls of the loop over ep.Headers.
RECURSIVE SetCalls(_, _)
SetCalls(headers, keys) ==
  IF keys = {} THEN <<>>
  ELSE LET k == CHOOSE x \in keys : TRUE
       IN <<Call("Header.Set", k, headers[k])>> \o SetCalls(headers, keys \ {k})

\* The body call: Fprint of a string, Encode of another value, none for nil.
BodyCalls(response) ==
  CASE response.kind = "nil" -> <<>>
    [] response.kind = "string" -> <<Call("Fprint", "", WriteBody(response))>>
    [] OTHER -> <<Call("Encode", "", WriteBody(response))>>

\* HandlerCalls with WriteHeader called before the headers are set.
HandlerCallsStatusFirst(ep) ==
  <<Call("WriteHeader", "", WriteStatus(ep))>>
  \o SetCalls(ep.headers, DOMAIN ep.headers)
  \o (IF HeaderGet(SetAll(NoHeaders, ep.headers, DOMAIN ep.headers), "Content-Type") = ""
        THEN <<Call("Header.Set", "Content-Type", "application/json")>> ELSE <<>>)
  \o BodyCalls(ep.response)

\* The calls of the handler on its ResponseWriter after the delay, in the
\* order it makes them: the declared headers, the content-type default, the
\* status, the body.
HandlerCalls(ep) ==
  SetCalls(ep.headers, DOMAIN ep.headers)
  \o (IF HeaderGet(SetAll(NoHeaders, ep.headers, DOMAIN ep.headers), "Content-Type") = ""
        THEN <<Call("Header.Set", "Content-Type", "application/json")>> ELSE <<>>)
  \o <<Call("WriteHeader", "", WriteStatus(ep))>>
  \o BodyCalls(ep.response)

\* What the handler addEndpoint registers hands to the ResponseWriter:
\* headers, status and body of the captured declaration, and the calls that
\* hand them over.
EndpointResponse(route) ==
  [kind |-> "endpoint",
   status |-> WriteStatus(route.ep),
   headers |-> WriteHeaders(route.ep),
   body |-> WriteBody(route.ep.response),
   calls |-> HandlerCalls(route.ep),
   source |-> route.source]

\* The health handler: WriteHeader(200) and the encoding of {"status":"ok"}.
HealthResponse ==
  [kind |-> "health", status |-> StatusOK,
   body |-> [enc |-> "json", val |-> "{status:ok}"]]

\* The NotFoundHandler SetupRoutes installs.
NotFoundResponse(path) ==
  [kind |-> "not_found", status |-> StatusNotFound,
   error |-> "Endpoint not found", path |-> path]

\* mux's answers when the router has no handler of its own for the case:
\* 405 for a method mismatch, the plain 404 when NotFoundHandler is unset.
MethodNotAllowedResponse == [kind |-> "method_not_allowed", status |-> 405]
DefaultNotFoundResponse == [kind |-> "default_not_found", status |-> StatusNotFound]

PluginNotFoundResponse ==
  [kind |-> "plugin_not_found", status |-> StatusNotFound, error |-> "Plugin not found"]

\* The response of a request that needs no further step of its handler.
ImmediateResponse(hit, path) ==
  CASE hit.kind = "health" -> HealthResponse
    [] hit.kind = "method_not_allowed" -> MethodNotAllowedResponse
    [] hit.kind = "not_found" /\ hit.custom -> NotFoundResponse(path)
    [] OTHER -> DefaultNotFoundResponse

\* ------------------------------------------------------------ transitions

Goto(p, o, s) ==
  /\ op' = [op EXCEPT ![p] = o]
  /\ pc' = [pc EXCEPT ![p] = s]

\* A handler's request has been answered.
Answer(h, r) ==
  /\ loc' = [loc EXCEPT ![h].resp = r]
  /\ Goto(h, op[h], "done")

\* LoadConfig forgetting the configuration it had when the load fails.
LoadConfigClearsOnError(p) ==
  /\ pc[p] = "LoadConfig"
  /\ mutex = Unlocked
  /\ IF cfgFile.kind # "config"
       THEN /\ config' = None
            /\ UNCHANGED <<pluginsDir, fs>>
            /\ IF op[p] = "start" THEN Goto(p, "start", "failed")
               ELSE Goto(p, "watch", "check_plugin")
       ELSE /\ config' = ParseConfig(cfgFile)
            /\ pluginsDir' = ParseConfig(cfgFile).plugins_dir
            /\ fs' = MkdirAll(ParseConfig(cfgFile).plugins_dir)
            /\ Goto(p, op[p], "LoadPlugins")
  /\ UNCHANGED <<plugins, router, served, mutex, cfgFile, watched, events, loc, ops>>

\* LoadConfig with a Start that goes on after a failed first load.
LoadConfigStartGoesOn(p) ==
  /\ pc[p] = "LoadConfig"
  /\ mutex = Unlocked
  /\ IF cfgFile.kind # "config"
       THEN /\ UNCHANGED <<config, pluginsDir, fs>>
            /\ IF op[p] = "start" THEN Goto(p, "start", "LoadPlugins")
               ELSE Goto(p, "watch", "check_plugin")
       ELSE /\ config' = ParseConfig(cfgFile)
            /\ pluginsDir' = ParseConfig(cfgFile).plugins_dir
            /\ fs' = MkdirAll(ParseConfig(cfgFile).plugins_dir)
            /\ Goto(p, op[p], "LoadPlugins")
  /\ UNCHANGED <<plugins, router, served, mutex, cfgFile, watched, events, loc, ops>>

\* LoadConfig, called by Start and by the watcher.  The lock is taken and
\* released inside the step.
LoadConfig(p) ==
  /\ pc[p] = "LoadConfig"
  /\ mutex = Unlocked
  /\ IF cfgFile.kind # "config"
       THEN /\ UNCHANGED <<config, pluginsDir, fs>>
            /\ IF op[p] = "start" THEN Goto(p, "start", "failed")
               ELSE Goto(p, "watch", "check_plugin")
       ELSE /\ config' = ParseConfig(cfgFile)
            /\ pluginsDir' = ParseConfig(cfgFile).plugins_dir
            /\ fs' = MkdirAll(ParseConfig(cfgFile).plugins_dir)
            /\ Goto(p, op[p], "LoadPlugins")
  /\ UNCHANGED <<plugins, router, served, mutex, cfgFile, watched, events, loc, ops>>

\* LoadPlugins, first part: the lock is taken and the map replaced by an
\* empty one.
LoadPluginsClear(p) ==
  /\ pc[p] = "LoadPlugins"
  /\ mutex = Unlocked
  /\ mutex' = p
  /\ plugins' = EmptyMap
  /\ loc' = Detach(loc)
  /\ Goto(p, op[p], "LoadPlugins.scan")
  /\ UNCHANGED <<config, pluginsDir, router, served, cfgFile, fs, watched, events, ops>>

\* AfterLoadPlugins with the watcher's plugin branch going back to its loop
\* without a rebuild.
AfterLoadPluginsNoRebuild(p, err) ==
  CASE op[p] \in {"start", "watch_cfg"} ->
         /\ Goto(p, op[p], "SetupRoutes") /\ UNCHANGED loc
    [] op[p] = "watch_plg" ->
         /\ Goto(p, "watch", "wait")
         /\ UNCHANGED loc
    [] OTHER ->
         IF err
           THEN Answer(p, [kind |-> "reload_failed", status |-> StatusInternalServerError])
           ELSE Goto(p, op[p], "SetupRoutes") /\ UNCHANGED loc

\* Where the caller of LoadPlugins goes on: Start and the watcher's
\* configuration branch rebuild whatever the result, the watcher's plugin
\* branch and the reload handler only after a successful scan.
AfterLoadPlugins(p, err) ==
  CASE op[p] \in {"start", "watch_cfg"} ->
         /\ Goto(p, op[p], "SetupRoutes") /\ UNCHANGED loc
    [] op[p] = "watch_plg" ->
         /\ Goto(p, IF err THEN "watch" ELSE op[p], IF err THEN "wait" ELSE "SetupRoutes")
         /\ UNCHANGED loc
    [] OTHER ->
         IF err
           THEN Answer(p, [kind |-> "reload_failed", status |-> StatusInternalServerError])
           ELSE Goto(p, op[p], "SetupRoutes") /\ UNCHANGED loc

\* LoadPluginsScan returning from a failed scan with the lock still held.
LoadPluginsScanKeepsLockOnError(p) ==
  /\ pc[p] = "LoadPlugins.scan"
  /\ mutex = p
  /\ plugins' = ScanResult(pluginsDir).map
  /\ mutex' = IF ScanResult(pluginsDir).err THEN p ELSE Unlocked
  /\ AfterLoadPlugins(p, ScanResult(pluginsDir).err)
  /\ UNCHANGED <<config, pluginsDir, router, served, cfgFile, fs, watched, events, ops>>

\* LoadPlugins, second part: the directory is scanned into the map and the
\* lock released.
LoadPluginsScan(p) ==
  /\ pc[p] = "LoadPlugins.scan"
  /\ mutex = p
  /\ plugins' = ScanResult(pluginsDir).map
  /\ mutex' = Unlocked
  /\ AfterLoadPlugins(p, ScanResult(pluginsDir).err)
  /\ UNCHANGED <<config, pluginsDir, router, served, cfgFile, fs, watched, events, ops>>

\* SetupRoutes, first part: the lock is taken and ms.router replaced by a
\* new, empty router.  A router given to ListenAndServe stays the object it
\* was.
SetupRoutesNew(p) ==
  /\ pc[p] = "SetupRoutes"
  /\ mutex = Unlocked
  /\ mutex' = p
  /\ router' = NewRouter
  /\ served' = IF served.kind = "alias" THEN [kind |-> "router", val |-> router]
               ELSE served
  /\ Goto(p, op[p], "SetupRoutes.add")
  /\ UNCHANGED <<config, pluginsDir, plugins, cfgFile, fs, watched, events, loc, ops>>

AfterSetupRoutes(p) ==
  CASE op[p] = "start" -> Goto(p, "start", "spawn")
    [] op[p] = "test" -> Goto(p, "test", "ready")
    [] op[p] = "watch_cfg" -> Goto(p, "watch", "check_plugin")
    [] op[p] = "watch_plg" -> Goto(p, "watch", "wait")
    [] OTHER -> Goto(p, op[p], "respond")

\* SetupRoutes, second part: the routes are added to ms.router, the plugins
\* in the map's iteration order, and the lock released.
SetupRoutesAdd(p) ==
  /\ pc[p] = "SetupRoutes.add"
  /\ mutex = p
  /\ \E order \in Perms(DOMAIN plugins) : router' = Compile(config, plugins, order)
  /\ mutex' = Unlocked
  /\ AfterSetupRoutes(p)
  /\ UNCHANGED <<config, pluginsDir, plugins, served, cfgFile, fs, watched, events, loc, ops>>

\* Start: go ms.WatchConfig()
StartSpawn ==
  /\ pc[Main] = "spawn"
  /\ op' = [op EXCEPT ![Watcher] = "watch"]
  /\ pc' = [pc EXCEPT ![Main] = "listen", ![Watcher] = "setup"]
  /\ UNCHANGED <<config, pluginsDir, plugins, router, served, mutex, cfgFile, fs,
                 watched, events, loc, ops>>

\* Start: http.ListenAndServe(":"+port, ms.router): the server dispatches on
\* the router object ms.router points at now.
StartListen ==
  /\ pc[Main] = "listen"
  /\ served' = [kind |-> "alias"]
  /\ Goto(Main, "serve", "serving")
  /\ UNCHANGED <<config, pluginsDir, plugins, router, mutex, cfgFile, fs,
                 watched, events, loc, ops>>

\* The router the listening server dispatches on.
Served == IF served.kind = "alias" THEN router ELSE served.val

\* --------------------------------------------------------------- watcher

\* WatchConfig up to its loop: the configuration file's directory is added
\* and, when it exists, the plugins directory of this moment.
WatchSetup ==
  /\ pc[Watcher] = "setup"
  /\ watched' = {configDir} \cup
                (IF DirKind(pluginsDir) # "missing" THEN {pluginsDir} ELSE {})
  /\ Goto(Watcher, "watch", "wait")
  /\ UNCHANGED <<config, pluginsDir, plugins, router, served, mutex, cfgFile, fs,
                 events, loc, ops>>

IsWriteOrCreate(e) == e.op \in {"write", "create"}

\* The watcher receives an event and tests the first condition.
WatchReceive ==
  /\ pc[Watcher] = "wait"
  /\ \E e \in events :
       /\ events' = events \ {e}
       /\ loc' = [loc EXCEPT ![Watcher].event = e]
       /\ IF e.name = configPath /\ IsWriteOrCreate(e)
            THEN Goto(Watcher, "watch_cfg", "LoadConfig")
            ELSE Goto(Watcher, "watch", "check_plugin")
  /\ UNCHANGED <<config, pluginsDir, plugins, router, served, mutex, cfgFile, fs,
                 watched, ops>>

\* The second condition, tested with the plugins directory of this moment.
IsPluginEvent(e, dir) ==
  /\ HasPrefix(e.name, dir)
  /\ e.name.json
  /\ e.op \in {"write", "create", "remove"}

WatchCheckPlugin ==
  /\ pc[Watcher] = "check_plugin"
  /\ IF IsPluginEvent(loc[Watcher].event, pluginsDir)
       THEN Goto(Watcher, "watch_plg", "LoadPlugins")
       ELSE Goto(Watcher, "watch", "wait")
  /\ UNCHANGED <<config, pluginsDir, plugins, router, served, mutex, cfgFile, fs,
                 watched, events, loc, ops>>

\* -------------------------------------------------------------- handlers

\* The {name} variable of an admin path.
NameVar(path) == path[3]

\* A request is given to ServeHTTP of a router, in a new goroutine (the
\* lowest free one), and matched against its routes.
ServeHTTP(h, table, method, path) ==
  /\ op[h] = "idle"
  /\ \A g \in Handlers : g < h => op[g] # "idle"
  /\ ops > 0
  /\ ops' = ops - 1
  /\ LET hit == Match(table, method, path)
         l == [loc EXCEPT ![h].req = [method |-> method, path |-> path,
                                       latest |-> IF NoRebuildRunning
                                                    THEN Match(router, method, path)
                                                    ELSE hit,
                                       at |-> ops,
                                       before |-> IF /\ hit.kind = "admin_toggle"
                                                     /\ NameVar(path) \in DOMAIN plugins
                                                     /\ WatcherQuiet /\ HandlersQuiet
                                                    THEN [enabled |-> plugins[NameVar(path)].enabled,
                                                          table |-> router]
                                                    ELSE None],
                          ![h].hit = hit]
     IN CASE hit.kind = "endpoint" ->
               /\ loc' = l
               /\ Goto(h, "endpoint", IF hit.ep.delay > 0 THEN "delay" ELSE "write")
          [] hit.kind = "admin_list" -> loc' = l /\ Goto(h, "list", "read")
          [] hit.kind = "admin_get" -> loc' = l /\ Goto(h, "get", "read")
          [] hit.kind = "admin_toggle" -> loc' = l /\ Goto(h, "toggle", "flip")
          [] hit.kind = "admin_reload" -> loc' = l /\ Goto(h, "reload", "LoadPlugins")
          [] OTHER ->
               /\ loc' = [l EXCEPT ![h].resp = ImmediateResponse(hit, path)]
               /\ Goto(h, "static", "done")
  /\ UNCHANGED <<config, pluginsDir, plugins, router, served, mutex, cfgFile, fs,
                 watched, events>>

\* A request arrives at the listening server, which serves the router it was
\* started with.
Request(h, method, path) ==
  /\ served # None
  /\ ServeHTTP(h, Served, method, path)

\* EndpointDelay with the sleep made under the lock: taken before the sleep,
\* released after it.
EndpointDelayUnderLock(h) ==
  /\ op[h] = "endpoint" /\ pc[h] = "delay"
  /\ IF mutex = h
       THEN mutex' = Unlocked /\ Goto(h, "endpoint", "write")
       ELSE mutex = Unlocked /\ mutex' = h /\ UNCHANGED <<op, pc>>
  /\ UNCHANGED <<config, pluginsDir, plugins, router, served, cfgFile, fs,
                 watched, events, loc, ops>>

\* time.Sleep of a declared delay has elapsed.
EndpointDelay(h) ==
  /\ op[h] = "endpoint" /\ pc[h] = "delay"
  /\ Goto(h, "endpoint", "write")
  /\ UNCHANGED <<config, pluginsDir, plugins, router, served, mutex, cfgFile, fs,
                 watched, events, loc, ops>>

\* EndpointWrite answering from the table ms.router holds at the time of the
\* write.
EndpointWriteRematch(h) ==
  /\ op[h] = "endpoint" /\ pc[h] = "write"
  /\ LET m == Match(router, loc[h].req.method, loc[h].req.path)
     IN Answer(h, IF m.kind = "endpoint" THEN EndpointResponse(m)
                  ELSE ImmediateResponse(m, loc[h].req.path))
  /\ UNCHANGED <<config, pluginsDir, plugins, router, served, mutex, cfgFile, fs,
                 watched, events, ops>>

\* Headers, status and body of the captured declaration are written.
EndpointWrite(h) ==
  /\ op[h] = "endpoint" /\ pc[h] = "write"
  /\ Answer(h, EndpointResponse(loc[h].hit))
  /\ UNCHANGED <<config, pluginsDir, plugins, router, served, mutex, cfgFile, fs,
                 watched, events, ops>>

\* ListPlugins reading the map without the read lock.
ListPluginsUnlocked(h) ==
  /\ op[h] = "list" /\ pc[h] = "read"
  /\ Answer(h, [kind |-> "plugin_list", status |-> StatusOK, body |-> plugins])
  /\ UNCHANGED <<config, pluginsDir, plugins, router, served, mutex, cfgFile, fs,
                 watched, events, ops>>

\* GET /_admin/plugins, under the read lock.
ListPlugins(h) ==
  /\ op[h] = "list" /\ pc[h] = "read"
  /\ mutex = Unlocked
  /\ Answer(h, [kind |-> "plugin_list", status |-> StatusOK, body |-> plugins])
  /\ UNCHANGED <<config, pluginsDir, plugins, router, served, mutex, cfgFile, fs,
                 watched, events, ops>>

\* GET /_admin/plugins/{name}, under the read lock.
GetPlugin(h) ==
  /\ op[h] = "get" /\ pc[h] = "read"
  /\ mutex = Unlocked
  /\ LET name == NameVar(loc[h].req.path) IN
       IF name \notin DOMAIN plugins
         THEN Answer(h, PluginNotFoundResponse)
         ELSE Answer(h, [kind |-> "plugin", status |-> StatusOK, body |-> plugins[name]])
  /\ UNCHANGED <<config, pluginsDir, plugins, router, served, mutex, cfgFile, fs,
                 watched, events, ops>>

\* ToggleFlip without the Unlock of the not-found path.
ToggleFlipKeepsLock(h) ==
  /\ op[h] = "toggle" /\ pc[h] = "flip"
  /\ mutex = Unlocked
  /\ LET name == NameVar(loc[h].req.path) IN
       IF name \notin DOMAIN plugins
         THEN /\ Answer(h, PluginNotFoundResponse)
              /\ mutex' = h
              /\ UNCHANGED plugins
         ELSE /\ plugins' = [plugins EXCEPT ![name].enabled = ~plugins[name].enabled]
              /\ loc' = [loc EXCEPT ![h].plugin = [kind |-> "live", name |-> name],
                                    ![h].flipped = ~plugins[name].enabled]
              /\ Goto(h, "toggle", "marshal")
              /\ UNCHANGED mutex
  /\ UNCHANGED <<config, pluginsDir, router, served, cfgFile, fs,
                 watched, events, ops>>

\* POST /_admin/plugins/{name}/toggle up to the unlock: the lookup and the
\* flip of the flag, or the 404.
ToggleFlip(h) ==
  /\ op[h] = "toggle" /\ pc[h] = "flip"
  /\ mutex = Unlocked
  /\ LET name == NameVar(loc[h].req.path) IN
       IF name \notin DOMAIN plugins
         THEN /\ Answer(h, PluginNotFoundResponse)
              /\ UNCHANGED plugins
         ELSE /\ plugins' = [plugins EXCEPT ![name].enabled = ~plugins[name].enabled]
              /\ loc' = [loc EXCEPT ![h].plugin = [kind |-> "live", name |-> name],
                                    ![h].flipped = ~plugins[name].enabled]
              /\ Goto(h, "toggle", "marshal")
  /\ UNCHANGED <<config, pluginsDir, router, served, mutex, cfgFile, fs,
                 watched, events, ops>>

\* savePlugin, first part: the path from ms.pluginsDir and the name, and the
\* bytes of the plugin object, both read without the lock.
SavePluginMarshal(h) ==
  /\ op[h] = "toggle" /\ pc[h] = "marshal"
  /\ loc' = [loc EXCEPT
       ![h].pluginPath = Path(pluginsDir, NameVar(loc[h].req.path), TRUE),
       ![h].data = MarshalPlugin(Deref(loc[h].plugin))]
  /\ Goto(h, "toggle", "write")
  /\ UNCHANGED <<config, pluginsDir, plugins, router, served, mutex, cfgFile, fs,
                 watched, events, ops>>

\* savePlugin, second part: os.WriteFile; the handler ignores its error.
SavePluginWrite(h) ==
  /\ op[h] = "toggle" /\ pc[h] = "write"
  /\ fs' = WriteFile(loc[h].pluginPath, loc[h].data)
  /\ events' = IF DirKind(loc[h].pluginPath.dir) = "dir"
                 THEN Notify(loc[h].pluginPath, "write") ELSE events
  /\ Goto(h, "toggle", "SetupRoutes")
  /\ UNCHANGED <<config, pluginsDir, plugins, router, served, mutex, cfgFile,
                 watched, loc, ops>>

\* The toggle's response: the flag is read from the plugin object again.
ToggleRespond(h) ==
  /\ op[h] = "toggle" /\ pc[h] = "respond"
  /\ Answer(h, [kind |-> "toggled", status |-> StatusOK,
                enabled |-> Deref(loc[h].plugin).enabled])
  /\ UNCHANGED <<config, pluginsDir, plugins, router, served, mutex, cfgFile, fs,
                 watched, events, ops>>

\* The response of POST /_admin/reload after the rebuild.
ReloadRespond(h) ==
  /\ op[h] = "reload" /\ pc[h] = "respond"
  /\ Answer(h, [kind |-> "reloaded", status |-> StatusOK])
  /\ UNCHANGED <<config, pluginsDir, plugins, router, served, mutex, cfgFile, fs,
                 watched, events, ops>>

\* The handler goroutine ends; the next request gets a fresh one.
Retire(h) ==
  /\ pc[h] = "done"
  /\ loc' = [loc EXCEPT ![h] = NoLoc]
  /\ Goto(h, "idle", "idle")
  /\ UNCHANGED <<config, pluginsDir, plugins, router, served, mutex, cfgFile, fs,
                 watched, events, ops>>

\* ------------------------------------------------------------ environment

\* Declarations the documents of the model are made of.
EpBaseX == Ep(<<"x">>, "GET", 200, JsonValue("base-x"), 0)
EpPlugX == Ep(<<"x">>, "POST", 201, JsonValue("plug-x"), 0)
EpPlugY == Ep(<<"y">>, "GET", 200, JsonValue("plug-y"), 1)
EpPlugY2 == Ep(<<"y">>, "GET", 202, StringValue("plug-y2"), 0)

CfgDocs == {ConfigDoc("", "", <<EpBaseX>>), ConfigDoc("8080", "plugins", <<>>)}

\* The documents a plugin file of each name can hold: a.json declares no
\* name, z.json may declare the name "a".
DocsOf(base) ==
  IF base = "a"
    THEN {PluginDoc("", e, eps) : e \in BOOLEAN, eps \in {<<EpPlugX>>, <<EpPlugY>>}}
    ELSE {PluginDoc(n, e, <<EpPlugY2>>) : n \in {"", "a"}, e \in BOOLEAN}
           \cup {Malformed}

Dirs == {"plugins"}

\* The requests clients send.
Requests ==
  {[method |-> "GET", path |-> <<"health">>],
   [method |-> "GET", path |-> <<"x">>],
   [method |-> "POST", path |-> <<"x">>],
   [method |-> "GET", path |-> <<"y">>],
   [method |-> "GET", path |-> <<"nowhere">>],
   [method |-> "GET", path |-> <<"_admin", "plugins">>],
   [method |-> "GET", path |-> <<"_admin", "plugins", "a">>],
   [method |-> "GET", path |-> <<"_admin", "plugins", "nobody">>],
   [method |-> "POST", path |-> <<"_admin", "plugins", "a", "toggle">>],
   [method |-> "POST", path |-> <<"_admin", "plugins", "z", "toggle">>],
   [method |-> "POST", path |-> <<"_admin", "plugins", "nobody", "toggle">>],
   [method |-> "POST", path |-> <<"_admin", "reload">>]}

\* Somebody rewrites the configuration file.
EditConfig(doc) ==
  /\ ops > 0
  /\ watched # {}
  /\ doc # cfgFile
  /\ ops' = ops - 1
  /\ cfgFile' = doc
  /\ events' = Notify(configPath, "write")
  /\ UNCHANGED <<config, pluginsDir, plugins, router, served, mutex, fs,
                 watched, op, pc, loc>>

\* Somebody writes a plugin file.
WritePluginFile(dir, base, doc) ==
  /\ ops > 0
  /\ watched # {}
  /\ DirKind(dir) = "dir"
  /\ fs[dir].files[base] # doc
  /\ ops' = ops - 1
  /\ fs' = WriteFile(Path(dir, base, TRUE), doc)
  /\ events' = Notify(Path(dir, base, TRUE), "write")
  /\ UNCHANGED <<config, pluginsDir, plugins, router, served, mutex, cfgFile,
                 watched, op, pc, loc>>

\* Somebody removes a plugin file.
RemovePluginFile(dir, base) ==
  /\ ops > 0
  /\ watched # {}
  /\ DirKind(dir) = "dir"
  /\ fs[dir].files[base] # Absent
  /\ ops' = ops - 1
  /\ fs' = [fs EXCEPT ![dir].files[base] = Absent]
  /\ events' = Notify(Path(dir, base, TRUE), "remove")
  /\ UNCHANGED <<config, pluginsDir, plugins, router, served, mutex, cfgFile,
                 watched, op, pc, loc>>

\* ---------------------------------------------------------- specification

\* The state after NewMockServer, with Start about to run, over the files
\* found at that moment.
Init ==
  /\ config = None
  /\ pluginsDir = ""
  /\ plugins = EmptyMap
  /\ router = NewRouter
  /\ served = None
  /\ mutex = Unlocked
  /\ cfgFile \in {ConfigDoc("", "", <<EpBaseX>>), Malformed}
  /\ \E kind \in {"dir", "missing", "notdir"} :
       \E files \in [FileBases -> UNION {DocsOf(b) : b \in FileBases} \cup {Absent}] :
         /\ \A b \in FileBases : files[b] \in DocsOf(b) \cup {Absent}
         /\ kind # "dir" => \A b \in FileBases : files[b] = Absent
         /\ fs = [d \in Dirs |-> [kind |-> kind, files |-> files]]
  /\ watched = {}
  /\ events = {}
  /\ op = [p \in Procs |-> IF p = Main THEN "start" ELSE IF p = Watcher THEN "off" ELSE "idle"]
  /\ pc = [p \in Procs |-> IF p = Main THEN "LoadConfig" ELSE IF p = Watcher THEN "off" ELSE "idle"]
  /\ loc = [p \in Procs |-> NoLoc]
  /\ ops = MaxOps

Next ==
  \/ \E p \in Procs : LoadConfig(p)
  \/ \E p \in Procs : LoadPluginsClear(p)
  \/ \E p \in Procs : LoadPluginsScan(p)
  \/ \E p \in Procs : SetupRoutesNew(p)
  \/ \E p \in Procs : SetupRoutesAdd(p)
  \/ StartSpawn
  \/ StartListen
  \/ WatchSetup
  \/ WatchReceive
  \/ WatchCheckPlugin
  \/ \E h \in Handlers : \E r \in Requests : Request(h, r.method, r.path)
  \/ \E h \in Handlers : EndpointDelay(h)
  \/ \E h \in Handlers : EndpointWrite(h)
  \/ \E h \in Handlers : ListPlugins(h)
  \/ \E h \in Handlers : GetPlugin(h)
  \/ \E h \in Handlers : ToggleFlip(h)
  \/ \E h \in Handlers : SavePluginMarshal(h)
  \/ \E h \in Handlers : SavePluginWrite(h)
  \/ \E h \in Handlers : ToggleRespond(h)
  \/ \E h \in Handlers : ReloadRespond(h)
  \/ \E h \in Handlers : Retire(h)
  \/ \E doc \in CfgDocs \cup {Malformed} : EditConfig(doc)
  \/ \E d \in Dirs : \E b \in FileBases : \E doc \in DocsOf(b) :
       WritePluginFile(d, b, doc)
  \/ \E d \in Dirs : \E b \in FileBases : RemovePluginFile(d, b)

Spec == Init /\ [][Next]_vars

\* ------------------------------------------------- the compiler on its own

\* The usage of main_test.go: a server object whose config and plugins fields
\* are set directly, then SetupRoutes, then requests served one at a time
\* by ms.router.

CE_GetX ==
  WithHeaders(Ep(<<"x">>, "GET", 200, JsonValue("main-x"), 0),
              [k \in {"X-Custom-Header"} |-> "custom-value"])
CE_LowX ==
  WithHeaders(Ep(<<"x">>, "get", 0, StringValue("low-x"), 0),
              [k \in {"content-type", "x-custom-header"} |->
                 IF k = "content-type" THEN "text/plain" ELSE "low"])
CE_PostX ==
  WithHeaders(Ep(<<"x">>, "POST", 201, JsonValue("post-x"), 0),
              [k \in {"Content-Type"} |-> ""])
CE_Health == Ep(<<"health">>, "GET", 500, JsonValue("fake-health"), 0)
CE_XAny == Ep(<<"x", "{id}">>, "GET", 200, NilValue, 0)
CE_XOne == Ep(<<"x", "1">>, "GET", 203, JsonValue("x-one"), 1)
CE_XOneB == Ep(<<"x", "1">>, "GET", 200, StringValue("x-one-b"), 0)
CE_Admin == Ep(<<"_admin", "plugins">>, "GET", 418, JsonValue("fake-admin"), 0)

BaseMenu == {CE_GetX, CE_LowX, CE_PostX, CE_Health, CE_XAny, CE_XOne, CE_Admin}
PluginMenu == {CE_LowX, CE_Health, CE_XOne}
TestPluginNames == {"p", "q"}

\* Declared sequences of at most two base endpoints.
BaseSeqs == {<<>>} \cup {<<e>> : e \in BaseMenu} \cup {<<e, f>> : e \in BaseMenu, f \in BaseMenu}

\* The endpoint sequences of a plugin: one endpoint of the menu, or two.
PluginSeqs == {<<m>> : m \in PluginMenu} \cup {<<CE_XOneB, CE_LowX>>}

\* Plugin maps over TestPluginNames.
TestPluginMaps ==
  UNION {[names -> {Plugin("", e, eps) : e \in BOOLEAN, eps \in PluginSeqs}] :
           names \in SUBSET TestPluginNames}

Named(map) == [n \in DOMAIN map |-> [map[n] EXCEPT !.name = n]]

TestRequests ==
  {[method |-> "GET", path |-> <<"x">>],
   [method |-> "POST", path |-> <<"x">>],
   [method |-> "PUT", path |-> <<"x">>],
   [method |-> "GET", path |-> <<"health">>],
   [method |-> "GET", path |-> <<"x", "1">>],
   [method |-> "GET", path |-> <<"x", "7">>],
   [method |-> "GET", path |-> <<"nowhere">>],
   [method |-> "GET", path |-> <<"_admin", "plugins">>]}

InitCompile ==
  /\ \E eps \in BaseSeqs : config = ParseConfig(ConfigDoc("9000", "plugins", eps))
  /\ pluginsDir = ""
  /\ \E map \in TestPluginMaps : plugins = Named(map)
  /\ router = NewRouter
  /\ served = None
  /\ mutex = Unlocked
  /\ cfgFile = Absent
  /\ fs = [d \in Dirs |-> [kind |-> "missing", files |-> [b \in FileBases |-> Absent]]]
  /\ watched = {}
  /\ events = {}
  /\ op = [p \in Procs |-> IF p = Main THEN "test" ELSE IF p = Watcher THEN "off" ELSE "idle"]
  /\ pc = [p \in Procs |-> IF p = Main THEN "SetupRoutes" ELSE IF p = Watcher THEN "off" ELSE "idle"]
  /\ loc = [p \in Procs |-> NoLoc]
  /\ ops = MaxOps

\* server.router.ServeHTTP(w, req) after SetupRoutes has returned.
TestRequest(h, method, path) ==
  /\ pc[Main] = "ready"
  /\ \A g \in Handlers : op[g] = "idle"
  /\ ServeHTTP(h, router, method, path)

NextCompile ==
  \/ SetupRoutesNew(Main)
  \/ SetupRoutesAdd(Main)
  \/ \E h \in Handlers : \E r \in TestRequests : TestRequest(h, r.method, r.path)
  \/ \E h \in Handlers : EndpointDelay(h)
  \/ \E h \in Handlers : EndpointWrite(h)
  \/ \E h \in Handlers : ListPlugins(h)
  \/ \E h \in Handlers : Retire(h)

SpecCompile == InitCompile /\ [][NextCompile]_vars

\* ---------------------------------------------------------------- claims

ReloadOps == {"toggle", "reload", "watch_cfg", "watch_plg"}

\* Nothing but handler h is at work: the other handlers are idle, the watcher
\* waits with no event pending and the lock is free.
QuietBut(h) ==
  /\ \A g \in Handlers \ {h} : op[g] = "idle"
  /\ WatcherQuiet

\* Handler h has answered a toggle of a loaded plugin.
ToggleReturned(h) ==
  /\ op[h] = "toggle" /\ pc[h] = "done"
  /\ loc[h].resp.kind = "toggled"

\* C1: a request that arrives at the listening server when no rebuild is
\* running is matched as the table of the last rebuild that returned
\* matches it.
C1_FreshTable ==
  \A h \in Handlers : loc[h].req # None => loc[h].hit = loc[h].req.latest

\* No declaration of the base configuration, of another plugin or of the
\* built-in routes has the method and path of an endpoint of plugin name.
SoleSource(name) ==
  \A i \in 1..Len(plugins[name].endpoints) :
    LET e == plugins[name].endpoints[i]
        same(f) == ToUpper(f.method) = ToUpper(e.method) /\ f.path = e.path
    IN /\ \A j \in 1..Len(config.endpoints) : ~same(config.endpoints[j])
       /\ \A q \in DOMAIN plugins \ {name} :
            \A j \in 1..Len(plugins[q].endpoints) : ~same(plugins[q].endpoints[j])
       /\ \A j \in 1..Len(setupManagementAPI) : ~same(setupManagementAPI[j])
       /\ ~same(HealthRoute)

\* C2: when a toggle of plugin p has returned and nothing else is going on,
\* the server's table answers each of p's endpoints (declared by no other
\* source) with that endpoint if p is enabled and with the not-found
\* response if it is disabled.
C2_ToggleReflected ==
  \A h \in Handlers :
    LET name == NameVar(loc[h].req.path) IN
    (ToggleReturned(h) /\ QuietBut(h) /\ name \in DOMAIN plugins /\ SoleSource(name))
      => \A i \in 1..Len(plugins[name].endpoints) :
           LET e == plugins[name].endpoints[i]
               m == Match(router, ToUpper(e.method), e.path)
           IN IF plugins[name].enabled
                THEN m.kind = "endpoint" /\ m.ep = e
                ELSE m.kind = "not_found"

\* C3: whenever the write lock is free in a started server, the installed
\* table is a compilation of the current store.
C3_TableOfStore ==
  (served # None /\ mutex = Unlocked)
    => \E order \in Perms(DOMAIN plugins) : router = Compile(config, plugins, order)

\* Goroutine p has taken the first step of a reload operation and not yet
\* its last.
MidReload(p) ==
  /\ op[p] \in ReloadOps
  /\ pc[p] \in {"marshal", "write", "LoadPlugins", "LoadPlugins.scan",
                "SetupRoutes", "SetupRoutes.add"}
  /\ ~(op[p] \in {"reload", "watch_plg"} /\ pc[p] = "LoadPlugins")

\* Goroutine q takes a step of a reload operation.
ReloadStep(q) ==
  /\ op[q] \in ReloadOps
  /\ pc[q] \in {"flip", "marshal", "write", "LoadConfig", "LoadPlugins",
                "LoadPlugins.scan", "SetupRoutes", "SetupRoutes.add"}
  /\ pc'[q] # pc[q]

\* C4: while one goroutine is between the first and the last step of a
\* reload operation, no other goroutine takes a step of one.
C4_ReloadsSerialized ==
  [][\A p, q \in Procs : (p # q /\ MidReload(p)) => ~ReloadStep(q)]_vars

\* C5: the 'enabled' value a toggle answers is the value its own flip gave
\* the flag.
C5_ResponseIsOwnFlip ==
  \A h \in Handlers :
    ToggleReturned(h) => loc[h].resp.enabled = loc[h].flipped

\* Handler h is about to run the lookup of a toggle or of a plugin GET for a
\* name that is not in the store.
UnknownLookup(h) ==
  /\ \/ op[h] = "toggle" /\ pc[h] = "flip"
     \/ op[h] = "get" /\ pc[h] = "read"
  /\ NameVar(loc[h].req.path) \notin DOMAIN plugins

\* C6: the lookup step of a toggle or a plugin GET for an unknown name
\* answers 404 'Plugin not found' and ends the handler, with the store, the
\* files, the pending events and the table as they were and the lock free.
C6_UnknownPlugin ==
  [][\A h \in Handlers :
       (UnknownLookup(h) /\ pc'[h] # pc[h])
         => /\ loc'[h].resp = PluginNotFoundResponse
            /\ loc'[h].resp.status = 404
            /\ pc'[h] = "done"
            /\ mutex' = Unlocked
            /\ UNCHANGED <<config, pluginsDir, plugins, router, fs, events>>]_vars

\* A toggle and a lookup of an unknown name have both been answered 404 by
\* a server that has plugins loaded.
C6_Witness ==
  \E h, g \in Handlers :
    /\ op[h] = "toggle" /\ pc[h] = "done"
    /\ loc[h].resp = PluginNotFoundResponse
    /\ op[g] = "get" /\ pc[g] = "done"
    /\ loc[g].resp = PluginNotFoundResponse
    /\ plugins # EmptyMap

\* C7: when a toggle of p has returned and nothing else is going on, a
\* rescan of the plugins directory yields p with the flag the toggle gave it.
C7_PersistedToggle ==
  \A h \in Handlers :
    LET name == NameVar(loc[h].req.path) IN
    (ToggleReturned(h) /\ QuietBut(h))
      => /\ name \in DOMAIN ScanResult(pluginsDir).map
         /\ ScanResult(pluginsDir).map[name].enabled = loc[h].flipped

\* Two routers answer every request of the model alike.
SameAnswers(r1, r2) ==
  \A q \in Requests : Match(r1, q.method, q.path) = Match(r2, q.method, q.path)

\* C8: two consecutive toggles of one plugin, the first arriving while
\* nothing else is at work and the second after the first has returned with
\* no input in between, leave the plugin's flag and the table's answers as
\* they were before the first.
C8_TogglePair ==
  \A h1, h2 \in Handlers :
    LET name == NameVar(loc[h1].req.path) IN
    ( /\ h1 # h2
      /\ ToggleReturned(h1) /\ ToggleReturned(h2)
      /\ NameVar(loc[h2].req.path) = name
      /\ loc[h1].req.before # None /\ loc[h2].req.before # None
      /\ loc[h2].req.at = loc[h1].req.at - 1
      /\ WatcherQuiet
      /\ name \in DOMAIN plugins )
      => /\ plugins[name].enabled = loc[h1].req.before.enabled
         /\ SameAnswers(router, loc[h1].req.before.table)

\* The built-in and base routes, which SetupRoutes registers before any
\* plugin route.
EarlyRoutes == setupManagementAPI \o <<HealthRoute>> \o AddAll(config.endpoints, "main")

\* A base declaration and a declaration of an enabled plugin have the same
\* method and path, which the request (method, path) matches.
Collision(method, path) ==
  \E i \in 1..Len(config.endpoints) : \E n \in DOMAIN plugins :
    \E j \in 1..Len(plugins[n].endpoints) :
      /\ plugins[n].enabled
      /\ config.endpoints[i].path = plugins[n].endpoints[j].path
      /\ ToUpper(config.endpoints[i].method) = method
      /\ ToUpper(plugins[n].endpoints[j].method) = method
      /\ PathMatches(config.endpoints[i].path, path)

\* Handler h has answered a request served by a compiled table.
Answered(h) == pc[h] = "done" /\ loc[h].req # None

\* C9 (first compiled wins): when a base declaration and one of an enabled plugin share
\* method and path, a request for them is answered by the first matching
\* route among the built-in and base routes (compiled earlier), with the
\* base declaration's own response when that route is a declared one; no
\* plugin's declaration answers it.
C9_FirstCompiledWins ==
  \A h \in Handlers :
    (Answered(h) /\ Collision(loc[h].req.method, loc[h].req.path))
      => LET b == FirstMatch(EarlyRoutes, loc[h].req.method, loc[h].req.path) IN
         /\ b # None
         /\ loc[h].hit = b
         /\ b.source \notin DOMAIN plugins
         /\ b.kind = "endpoint" => loc[h].resp = EndpointResponse(b)

\* The response the plugin's colliding declaration would give is another one
\* than the response written.
C9_Witness ==
  \E h \in Handlers :
    /\ Answered(h) /\ Collision(loc[h].req.method, loc[h].req.path)
    /\ loc[h].hit.source = "main"
    /\ \E n \in DOMAIN plugins : \E j \in 1..Len(plugins[n].endpoints) :
         /\ plugins[n].enabled
         /\ plugins[n].endpoints[j].path = loc[h].hit.path
         /\ ToUpper(plugins[n].endpoints[j].method) = loc[h].req.method
         /\ EndpointResponse(addEndpoint(plugins[n].endpoints[j], n)) # loc[h].resp

\* C9 (last compiled wins): such a request is answered with the declaration of an
\* enabled plugin.
C9_PluginWins ==
  \A h \in Handlers :
    (Answered(h) /\ Collision(loc[h].req.method, loc[h].req.path))
      => \E n \in DOMAIN plugins : \E j \in 1..Len(plugins[n].endpoints) :
           /\ plugins[n].enabled
           /\ loc[h].hit = addEndpoint(plugins[n].endpoints[j], n)
           /\ loc[h].resp = EndpointResponse(loc[h].hit)

\* C10: every table SetupRoutes has compiled matches GET /health to the
\* built-in health route and the admin requests to the admin routes, and a
\* GET /health served by it is answered 200 {"status":"ok"}.
C10_BuiltinsFirst ==
  /\ (pc[Main] = "ready" /\ mutex = Unlocked)
       => /\ Match(router, "GET", <<"health">>) = HealthRoute
          /\ Match(router, "GET", <<"_admin", "plugins">>).kind = "admin_list"
          /\ Match(router, "GET", <<"_admin", "plugins", "p">>).kind = "admin_get"
          /\ Match(router, "POST", <<"_admin", "plugins", "p", "toggle">>).kind = "admin_toggle"
          /\ Match(router, "POST", <<"_admin", "reload">>).kind = "admin_reload"
  /\ \A h \in Handlers :
       (Answered(h) /\ loc[h].req.method = "GET" /\ loc[h].req.path = <<"health">>)
         => /\ loc[h].resp.status = 200
            /\ loc[h].resp.body = [enc |-> "json", val |-> "{status:ok}"]

\* GET /health has been answered by a table compiled from declarations of
\* GET /health in the base configuration and in an enabled plugin.
C10_Witness ==
  \E h \in Handlers :
    /\ Answered(h) /\ loc[h].req.method = "GET" /\ loc[h].req.path = <<"health">>
    /\ \E i \in 1..Len(config.endpoints) : config.endpoints[i] = CE_Health
    /\ \E n \in DOMAIN plugins : plugins[n].enabled /\ plugins[n].endpoints[1] = CE_Health

\* C11: a request that no route of the compiled table matches in both method
\* and path, a path registered only for another method included, is
\* answered 404 with error 'Endpoint not found' and the requested path.
C11_NotFound ==
  \A h \in Handlers :
    ( /\ Answered(h) /\ pc[Main] = "ready"
      /\ FirstMatch(router.routes, loc[h].req.method, loc[h].req.path) = None )
      => /\ loc[h].resp.kind = "not_found"
         /\ loc[h].resp.status = 404
         /\ loc[h].resp.error = "Endpoint not found"
         /\ loc[h].resp.path = loc[h].req.path

\* The first compiled route that matches the request of handler h.
Matched(h) == FirstMatch(router.routes, loc[h].req.method, loc[h].req.path)

\* A declaration of the base configuration or of an enabled plugin.
Declared(d) ==
  \/ \E i \in 1..Len(config.endpoints) : config.endpoints[i] = d
  \/ \E n \in DOMAIN plugins : \E j \in 1..Len(plugins[n].endpoints) :
       plugins[n].enabled /\ plugins[n].endpoints[j] = d

\* Every declaration the compiled store holds.
Declarations ==
  {config.endpoints[i] : i \in 1..Len(config.endpoints)}
    \cup UNION {{plugins[n].endpoints[j] : j \in 1..Len(plugins[n].endpoints)} :
                  n \in DOMAIN plugins}

\* C12 (status of the matched declaration): a request whose first matching
\* compiled route is a declared one is answered with the status code of that
\* route's declaration, or 200 when that status code is 0.
C12_StatusOfMatched ==
  \A h \in Handlers :
    (Answered(h) /\ pc[Main] = "ready" /\ Matched(h) # None /\ Matched(h).kind = "endpoint")
      => /\ Declared(Matched(h).ep)
         /\ loc[h].resp.status =
              IF Matched(h).ep.status_code = 0 THEN 200 ELSE Matched(h).ep.status_code

\* A request has been answered 200 by a declaration whose status code is 0.
C12_Witness ==
  \E h \in Handlers :
    /\ Answered(h) /\ pc[Main] = "ready"
    /\ Matched(h) # None /\ Matched(h).kind = "endpoint"
    /\ Matched(h).ep.status_code = 0
    /\ loc[h].resp.status = 200

\* C12 (status of every declaration): each declaration whose method and path
\* are those of the request gives the response its status code, or 200 when
\* that is 0.
C12_StatusOfDeclared ==
  \A h \in Handlers : \A d \in Declarations :
    ( /\ Answered(h) /\ pc[Main] = "ready" /\ Declared(d)
      /\ ToUpper(d.method) = loc[h].req.method /\ d.path = loc[h].req.path )
      => loc[h].resp.status = IF d.status_code = 0 THEN 200 ELSE d.status_code

\* C13: the response of a matched declared route carries every declared
\* header with its declared value, and Content-Type application/json when no
\* declared header set a content type.
C13_Headers ==
  \A h \in Handlers :
    (Answered(h) /\ loc[h].hit.kind = "endpoint")
      => LET declared == loc[h].hit.ep.headers
             sent == loc[h].resp.headers
         IN /\ \A k \in DOMAIN declared :
                 /\ CanonicalKey(k) \in DOMAIN sent
                 /\ sent[CanonicalKey(k)] = declared[k]
            /\ (\A k \in DOMAIN declared : CanonicalKey(k) # "Content-Type")
                 => /\ "Content-Type" \in DOMAIN sent
                    /\ sent["Content-Type"] = "application/json"

\* C14: the body of a matched declared route is the declared string as it
\* is for a string response, the JSON encoding of the value for any other
\* non-nil response, and nothing for a nil response.
C14_BodyByKind ==
  \A h \in Handlers :
    (Answered(h) /\ loc[h].hit.kind = "endpoint")
      => LET declared == loc[h].hit.ep.response
             body == loc[h].resp.body
         IN /\ declared.kind = "string" => body = [enc |-> "verbatim", val |-> declared.val]
            /\ declared.kind = "json" => body = [enc |-> "json", val |-> declared.val]
            /\ declared.kind = "nil" => body.enc = "none"

\* A declared string response has been written.
C14_Witness ==
  \E h \in Handlers :
    /\ Answered(h) /\ loc[h].hit.kind = "endpoint"
    /\ loc[h].hit.ep.response = StringValue("low-x")
    /\ loc[h].resp.body.val = "low-x"

\* Handler h is suspended in the delay of a route.
Sleeping(h) == op[h] = "endpoint" /\ pc[h] = "delay"

\* Goroutine p is at a step that starts by taking the write lock.
AtLock(p) == pc[p] \in {"LoadConfig", "LoadPlugins", "SetupRoutes", "flip"}

\* C15: while requests are suspended in a delay, none of them holds the
\* lock; whoever holds it is inside LoadPlugins or SetupRoutes and can go on
\* to release it, and with the lock free every goroutine waiting for it, and
\* every sleeper, can take its step.
C15_DelayHoldsNoLock ==
  (\E h \in Handlers : Sleeping(h))
    => /\ \A h \in Handlers : Sleeping(h) => mutex # h /\ ENABLED EndpointDelay(h)
       /\ mutex # Unlocked
            => /\ ~Sleeping(mutex)
               /\ pc[mutex] \in {"LoadPlugins.scan", "SetupRoutes.add"}
               /\ ENABLED (LoadPluginsScan(mutex) \/ SetupRoutesAdd(mutex))
       /\ mutex = Unlocked
            => \A p \in Procs : AtLock(p) =>
                 ENABLED (LoadConfig(p) \/ LoadPluginsClear(p) \/ SetupRoutesNew(p)
                            \/ ToggleFlip(p))

\* A toggle that arrived after a request went to sleep has run to its
\* response, rebuild included, while that request is still asleep.
C15_Witness ==
  \E h, g \in Handlers :
    /\ Sleeping(h)
    /\ ToggleReturned(g)
    /\ loc[g].req.at < loc[h].req.at

\* C16: a request matched to a declared route is answered with the status,
\* headers and body of the declaration it was matched to, whatever has
\* become of the store and the table since.
C16_InFlightKeepsRoute ==
  \A h \in Handlers :
    (Answered(h) /\ op[h] = "endpoint")
      => LET ep == loc[h].hit.ep
             r == loc[h].resp
         IN /\ loc[h].hit.kind = "endpoint"
            /\ r.status = IF ep.status_code = 0 THEN 200 ELSE ep.status_code
            /\ r.body.val = ep.response.val
            /\ r.body.enc = (IF ep.response.kind = "string" THEN "verbatim"
                             ELSE IF ep.response.kind = "nil" THEN "none" ELSE "json")
            /\ r.headers = WriteHeaders(ep)
            /\ r.source = loc[h].hit.source

\* A request was matched to a route with a delay when the server's table
\* matched it the same way, and has been answered after a rebuild installed a
\* table that no longer does.
C16_Witness ==
  \E h \in Handlers :
    /\ Answered(h) /\ op[h] = "endpoint"
    /\ loc[h].hit.ep.delay > 0
    /\ loc[h].req.latest = loc[h].hit
    /\ NoRebuildRunning
    /\ Match(router, loc[h].req.method, loc[h].req.path) # loc[h].hit

\* The position of a file in the directory listing.
ListingIndex(base) == CHOOSE i \in 1..Len(FileOrder) : FileOrder[i] = base

\* The well-formed plugin files of a directory, and the name each loads
\* under.
WellFormed(dir) == {b \in FileBases : fs[dir].files[b].kind = "plugin"}
LoadedName(dir, b) == IF fs[dir].files[b].name = "" THEN b ELSE fs[dir].files[b].name

\* The last file of the listing that loads under name n.
LastFileOf(dir, n) ==
  CHOOSE b \in WellFormed(dir) :
    /\ LoadedName(dir, b) = n
    /\ \A c \in WellFormed(dir) :
         LoadedName(dir, c) = n => ListingIndex(c) <= ListingIndex(b)

\* C17: a LoadPlugins that returns without error leaves exactly the bundles
\* of the well-formed files of the directory, each under its name (the base
\* name of the file when it declares none), the last file of the listing
\* winning a name; nothing loaded before stays, a malformed file is skipped.
C17_ScanReplaces ==
  [][\A p \in Procs :
       ( /\ pc[p] = "LoadPlugins.scan" /\ pc'[p] # pc[p]
         /\ DirKind(pluginsDir) # "notdir" )
         => LET dir == pluginsDir
                names == IF DirKind(dir) = "dir"
                           THEN {LoadedName(dir, b) : b \in WellFormed(dir)} ELSE {}
            IN /\ DOMAIN plugins' = names
               /\ \A n \in names :
                    LET doc == fs[dir].files[LastFileOf(dir, n)]
                    IN plugins'[n] = [name |-> n, enabled |-> doc.enabled,
                                      endpoints |-> doc.endpoints]
               /\ mutex' = Unlocked
               /\ pc'[p] \in {"SetupRoutes", "spawn"}]_vars

\* A rescan after the start has loaded the bundle of z.json under the name
\* "a", which a.json loads under too.
C17_Witness ==
  \E p \in Procs :
    /\ op[p] \in {"reload", "watch_plg", "watch_cfg"} /\ pc[p] = "SetupRoutes"
    /\ fs[pluginsDir].files["a"].kind = "plugin"
    /\ fs[pluginsDir].files["z"].kind = "plugin"
    /\ fs[pluginsDir].files["z"].name = "a"
    /\ DOMAIN plugins = {"a"}
    /\ plugins["a"].endpoints = fs[pluginsDir].files["z"].endpoints
    /\ plugins["a"].endpoints # fs[pluginsDir].files["a"].endpoints

\* ------------------------------------------------- the loaders on their own

\* The usage of main_test.go's TestLoadConfig and of Start up to the first
\* compile: one goroutine loads the configuration, scans the plugins
\* directory and compiles, over configuration documents with and without a
\* port and a plugins directory.
LoadDirs == {"plugins", "test-plugins"}

LoadCfgDocs ==
  {ConfigDoc(port, dir, eps) :
     port \in {"", "8080"}, dir \in {"", "plugins", "test-plugins"},
     eps \in {<<>>, <<EpBaseX>>}}

InitLoad ==
  /\ config = None
  /\ pluginsDir = ""
  /\ plugins = EmptyMap
  /\ router = NewRouter
  /\ served = None
  /\ mutex = Unlocked
  /\ cfgFile \in LoadCfgDocs \cup {Malformed, Absent}
  /\ \E kinds \in [LoadDirs -> {"dir", "missing", "notdir"}] :
       \E doc \in DocsOf("a") \cup {Absent} :
         fs = [d \in LoadDirs |->
                 [kind |-> kinds[d],
                  files |-> [b \in FileBases |->
                               IF kinds[d] = "dir" /\ b = "a" THEN doc ELSE Absent]]]
  /\ watched = {}
  /\ events = {}
  /\ op = [p \in Procs |-> IF p = Main THEN "start" ELSE IF p = Watcher THEN "off" ELSE "idle"]
  /\ pc = [p \in Procs |-> IF p = Main THEN "LoadConfig" ELSE IF p = Watcher THEN "off" ELSE "idle"]
  /\ loc = [p \in Procs |-> NoLoc]
  /\ ops = MaxOps

NextLoad ==
  \/ LoadConfig(Main)
  \/ LoadPluginsClear(Main)
  \/ LoadPluginsScan(Main)
  \/ SetupRoutesNew(Main)
  \/ SetupRoutesAdd(Main)

SpecLoad == InitLoad /\ [][NextLoad]_vars

\* LoadConfig has returned without error.
ConfigLoaded == pc[Main] \notin {"LoadConfig", "failed"}

\* C18: after a successful LoadConfig the base configuration is the
\* document's, with port "9000" and plugins directory "plugins" where the
\* document has none, and ms.pluginsDir is the configuration's directory.
C18_ConfigDefaults ==
  ConfigLoaded
    => /\ cfgFile.kind = "config"
       /\ config.port = (IF cfgFile.port = "" THEN "9000" ELSE cfgFile.port)
       /\ config.plugins_dir =
            (IF cfgFile.plugins_dir = "" THEN "plugins" ELSE cfgFile.plugins_dir)
       /\ config.endpoints = cfgFile.endpoints
       /\ pluginsDir = config.plugins_dir

\* A document without a port and with a plugins directory of its own has
\* been loaded.
C18_Witness ==
  /\ ConfigLoaded
  /\ cfgFile.port = "" /\ cfgFile.plugins_dir = "test-plugins"
  /\ config.port = "9000" /\ pluginsDir = "test-plugins"

\* The configuration file cannot be read or parsed.
ConfigUnreadable == cfgFile.kind # "config"

\* C19: a LoadConfig that fails changes nothing and releases the lock; in
\* Start it ends the start, after which nothing is compiled or served and no
\* watcher runs; in the watcher the event's processing ends with the
\* configuration, the plugins directory, the plugin set and the table as
\* they were, and the watcher back at its loop, able to receive what is
\* pending.
C19_ConfigUnreadable ==
  [][ /\ \A p \in Procs :
           (pc[p] = "LoadConfig" /\ pc'[p] # pc[p] /\ ConfigUnreadable)
             => /\ UNCHANGED <<config, pluginsDir, plugins, router, served, fs>>
                /\ mutex' = Unlocked
                /\ p = Main => pc'[Main] = "failed"
                /\ p = Watcher => op'[Watcher] = "watch" /\ pc'[Watcher] = "check_plugin"
      /\ pc[Main] = "failed"
           => /\ pc'[Main] = "failed"
              /\ router' = NewRouter /\ served' = None /\ config' = None
              /\ op'[Watcher] = "off"
      /\ ( /\ pc[Watcher] = "check_plugin" /\ pc'[Watcher] # pc[Watcher]
           /\ loc[Watcher].event.name = configPath )
           => /\ UNCHANGED <<config, pluginsDir, plugins, router, served, fs>>
              /\ pc'[Watcher] = "wait"
      /\ (pc[Watcher] = "wait" /\ events # {}) => ENABLED WatchReceive
    ]_vars

\* The watcher has processed the event of a rewrite that left the
\* configuration file unparseable, and after it the event of a plugin file.
C19_Witness ==
  /\ served # None /\ config # None
  /\ ConfigUnreadable
  /\ pc[Watcher] = "wait" /\ events = {}
  /\ loc[Watcher].event # None
  /\ loc[Watcher].event.name # configPath

\* C20: the step in which GET /_admin/plugins reads the store is taken when
\* no rescan is between clearing the map and having filled it again, and its
\* response is the whole plugin map of that moment, enabled and disabled
\* plugins alike.
C20_ListIsSnapshot ==
  [][\A h \in Handlers :
       (op[h] = "list" /\ pc[h] = "read" /\ pc'[h] # pc[h])
         => /\ \A p \in Procs : pc[p] # "LoadPlugins.scan"
            /\ mutex = Unlocked
            /\ pc'[h] = "done"
            /\ loc'[h].resp.status = 200
            /\ DOMAIN loc'[h].resp.body = DOMAIN plugins
            /\ \A n \in DOMAIN plugins : loc'[h].resp.body[n] = plugins[n]
            /\ UNCHANGED plugins]_vars

\* GET /_admin/plugins, arrived after a POST /_admin/reload that has
\* rescanned by now, has listed an enabled and a disabled plugin.
C20_Witness ==
  \E h, g \in Handlers :
    /\ op[h] = "list" /\ pc[h] = "done"
    /\ \E n, m \in DOMAIN loc[h].resp.body :
         loc[h].resp.body[n].enabled /\ ~loc[h].resp.body[m].enabled
    /\ op[g] = "reload" /\ pc[g] \in {"SetupRoutes", "SetupRoutes.add", "respond", "done"}
    /\ loc[g].req.at > loc[h].req.at

\* What a table answers a request with, as far as the table decides it: the
\* response of the declared route matched, the built-in handler reached, or
\* the answer for no match.
AnswerOf(table, method, path) ==
  LET m == Match(table, method, path)
  IN CASE m.kind = "endpoint" -> EndpointResponse(m)
       [] m.kind \in {"admin_list", "admin_get", "admin_toggle", "admin_reload"} ->
            [kind |-> m.kind]
       [] OTHER -> ImmediateResponse(m, path)

\* The declaration d with its method written in upper case.
UpperCased(d) == [d EXCEPT !.method = ToUpper(d.method)]

RECURSIVE UpperCasedAll(_)
UpperCasedAll(eps) ==
  IF eps = <<>> THEN <<>> ELSE <<UpperCased(Head(eps))>> \o UpperCasedAll(Tail(eps))

\* The method spellings of the declarations.
MethodSpellings == {"GET", "get", "Get", "POST", "post", "Post"}

\* Every declaration of the menu, its method written in each spelling, is
\* registered under the upper-case method, and its route responds as the
\* route of the declaration written in upper case.
RouteOfAnySpelling ==
  \A d \in BaseMenu : \A m \in MethodSpellings :
    LET written == [d EXCEPT !.method = m]
        route == addEndpoint(written, "main")
        upper == addEndpoint(UpperCased(written), "main")
    IN /\ route.method = ToUpper(m)
       /\ route.method \in {"GET", "POST"}
       /\ route.method = upper.method /\ route.path = upper.path
       /\ EndpointResponse(route) = EndpointResponse(upper)

\* C22: the route compiled for a declaration is registered under the
\* upper-case form of the declared method, whatever its letter case, so a
\* request with the upper-case method and the route's path matches it; the
\* route's response is the one of the same declaration written in upper
\* case, and the compiled table answers every request as the table of the
\* upper-cased declarations does.
C22_MethodCase ==
  /\ RouteOfAnySpelling
  /\ pc[Main] = "ready"
       => /\ \A i \in 1..Len(router.routes) :
               router.routes[i].kind = "endpoint"
                 => router.routes[i].method = ToUpper(router.routes[i].ep.method)
          /\ \E order \in Perms(DOMAIN plugins) :
               LET upper == Compile([config EXCEPT !.endpoints = UpperCasedAll(config.endpoints)],
                                    [n \in DOMAIN plugins |->
                                       [plugins[n] EXCEPT !.endpoints = UpperCasedAll(plugins[n].endpoints)]],
                                    order)
               IN \A r \in TestRequests :
                    AnswerOf(router, r.method, r.path) = AnswerOf(upper, r.method, r.path)
  /\ \A h \in Handlers :
       (Answered(h) /\ loc[h].hit.kind = "endpoint")
         => loc[h].req.method = ToUpper(loc[h].hit.ep.method)

\* A GET request has been answered by the route of a declaration whose method
\* is written "get".
C22_Witness ==
  \E h \in Handlers :
    /\ Answered(h) /\ loc[h].hit.kind = "endpoint"
    /\ loc[h].hit.ep.method = "get"
    /\ loc[h].req.method = "GET"
    /\ loc[h].resp.body.val = "low-x"

\* The names of the enabled plugins of the store.
EnabledPlugins == {n \in DOMAIN plugins : plugins[n].enabled}

\* Route r is the route of declaration d with source label source.
IsRouteOf(r, d, source) ==
  /\ r.kind = "endpoint" /\ r.ep = d /\ r.source = source
  /\ r.path = d.path /\ r.method = ToUpper(d.method)

\* C23: the table SetupRoutes has built holds the four admin routes and the
\* health route first, then one route per base endpoint in declared order
\* with source "main", then for each enabled plugin one block of routes, its
\* endpoints in declared order with the plugin's name as source; there is
\* no route of a disabled plugin and no route besides these, and the
\* not-found handler is set.
C23_TableContents ==
  pc[Main] = "ready"
    => LET rs == router.routes
           nb == Len(config.endpoints)
           rest == (5 + nb + 1)..Len(rs)
       IN /\ router.notFound
          /\ Len(rs) >= 5 + nb
          /\ <<rs[1].kind, rs[2].kind, rs[3].kind, rs[4].kind, rs[5].kind>>
               = <<"admin_list", "admin_get", "admin_toggle", "admin_reload", "health">>
          /\ \A i \in 1..nb : IsRouteOf(rs[5 + i], config.endpoints[i], "main")
          /\ \A i \in rest : rs[i].kind = "endpoint" /\ rs[i].source \in EnabledPlugins
          /\ \A n \in EnabledPlugins :
               LET eps == plugins[n].endpoints
                   own == {i \in rest : rs[i].source = n}
               IN \E k \in 5 + nb .. Len(rs) :
                    /\ own = (k + 1)..(k + Len(eps))
                    /\ \A j \in 1..Len(eps) : IsRouteOf(rs[k + j], eps[j], n)

\* A table has been built from two base endpoints, an enabled plugin of two
\* endpoints and a disabled plugin.
C23_Witness ==
  /\ pc[Main] = "ready"
  /\ Len(config.endpoints) = 2
  /\ \E n, m \in DOMAIN plugins :
       /\ plugins[n].enabled /\ Len(plugins[n].endpoints) = 2
       /\ ~plugins[m].enabled
  /\ Len(router.routes) = 9

\* Status, headers and body of an answer: what the client receives.
OnWire(a) ==
  IF a.kind = "endpoint"
    THEN [status |-> a.status, headers |-> a.headers, body |-> a.body]
    ELSE a

\* C24: every run of SetupRoutes over the base configuration and plugin set
\* of the store gives a table that answers each request as the table
\* installed by the run that was made answers it.
C24_CompileDeterministic ==
  pc[Main] = "ready"
    => \A order \in Perms(DOMAIN plugins) :
         \A r \in TestRequests :
           OnWire(AnswerOf(Compile(config, plugins, order), r.method, r.path))
             = OnWire(AnswerOf(router, r.method, r.path))

\* http.ResponseWriter: what a sequence of calls puts on the wire.  Headers
\* set before the status is written are sent with it, later ones are not; the
\* first WriteHeader decides the status, and a body write without one sends
\* 200 first.
RECURSIVE Wire(_, _)
Wire(calls, w) ==
  IF calls = <<>> THEN w
  ELSE LET c == Head(calls)
           committed == IF w.sent THEN w
                        ELSE [w EXCEPT !.sent = TRUE, !.headers = w.pending,
                                       !.status = IF c.call = "WriteHeader" THEN c.value ELSE StatusOK]
       IN Wire(Tail(calls),
               CASE c.call = "Header.Set" ->
                      [w EXCEPT !.pending = HeaderSet(w.pending, c.key, c.value)]
                 [] c.call = "WriteHeader" -> committed
                 [] OTHER -> [committed EXCEPT !.body = c.value])

NothingWritten ==
  [sent |-> FALSE, pending |-> NoHeaders, headers |-> NoHeaders, status |-> 0,
   body |-> [enc |-> "none", val |-> ""]]

\* The calls cs are those of declaration ep in the order: declared headers,
\* content-type default, status, body.
InStepOrder(cs, ep) ==
  LET n == Cardinality(DOMAIN ep.headers)
      default == Call("Header.Set", "Content-Type", "application/json")
  IN /\ Len(cs) >= n + 1
     /\ \A i \in 1..n : /\ cs[i].call = "Header.Set"
                        /\ cs[i].key \in DOMAIN ep.headers
                        /\ cs[i].value = ep.headers[cs[i].key]
     /\ {cs[i].key : i \in 1..n} = DOMAIN ep.headers
     /\ \E k \in {n + 1, n + 2} :
          /\ k <= Len(cs)
          /\ cs[k] = Call("WriteHeader", "", IF ep.status_code = 0 THEN 200 ELSE ep.status_code)
          /\ k = n + 2 => cs[n + 1] = default
          /\ k = n + 2 <=> \A i \in 1..n : CanonicalKey(cs[i].key) # "Content-Type" \/ cs[i].value = ""
          /\ Len(cs) = IF ep.response.kind = "nil" THEN k ELSE k + 1
          /\ Len(cs) = k + 1 => cs[k + 1].call \in {"Fprint", "Encode"}

\* C29: a request matched to a declared route with a delay greater than zero
\* is first suspended, and nothing is written while it is; with a delay of
\* zero it goes to the writes at once.  The writes are made in the order
\* declared headers, content-type default, status, body, so that the
\* response on the wire has the headers and the status the handler set.
C29_StepOrder ==
  [][\A h \in Handlers :
       /\ (op[h] = "idle" /\ op'[h] = "endpoint")
            => /\ loc'[h].resp = None
               /\ pc'[h] = IF loc'[h].hit.ep.delay > 0 THEN "delay" ELSE "write"
       /\ (op[h] = "endpoint" /\ pc[h] = "delay")
            => /\ loc[h].resp = None /\ loc[h].hit.ep.delay > 0
               /\ pc'[h] # pc[h] => pc'[h] = "write" /\ loc'[h].resp = None
       /\ (op[h] = "endpoint" /\ pc[h] = "write" /\ pc'[h] # pc[h])
            => LET r == loc'[h].resp
                   w == Wire(r.calls, NothingWritten)
               IN /\ pc'[h] = "done" /\ loc[h].resp = None
                  /\ InStepOrder(r.calls, loc[h].hit.ep)
                  /\ w.sent
                  /\ w.status = r.status /\ w.headers = r.headers /\ w.body = r.body
    ]_vars

\* A request to a route with a delay has been answered after its suspension:
\* the content-type default, the status and the body were written.
C29_Witness ==
  \E h \in Handlers :
    /\ Answered(h) /\ loc[h].hit.kind = "endpoint"
    /\ loc[h].hit.ep.delay > 0
    /\ Len(loc[h].resp.calls) = 3
    /\ loc[h].resp.calls[2].call = "WriteHeader"

\* A request to a route without a delay that declares headers has been
\* answered.
C29_NoDelay ==
  \E h \in Handlers :
    /\ Answered(h) /\ loc[h].hit.kind = "endpoint"
    /\ loc[h].hit.ep.delay = 0
    /\ DOMAIN loc[h].hit.ep.headers # {}

\* Table t has all the parts a compile gives a table: the built-in routes
\* and the not-found handler.
FullyFormed(t) ==
  /\ t.notFound
  /\ Len(t.routes) >= Len(setupManagementAPI) + 1
  /\ SubSeq(t.routes, 1, Len(setupManagementAPI) + 1) = setupManagementAPI \o <<HealthRoute>>

\* C25: the table a reader obtains through the server's reference, the
\* listening server for each request it dispatches, is a table whose compile
\* has added all its routes and its not-found handler; no request is
\* matched against a table that lacks them.
C25_ReadersSeeWholeTable ==
  /\ served # None => FullyFormed(Served)
  /\ \A h \in Handlers :
       (loc[h].req # None /\ loc[h].hit.kind = "not_found") => loc[h].hit.custom

\* Goroutine p takes a step that reads the store: the compile, the admin
\* list and lookup, the persist step of a toggle, the response of a toggle.
StoreRead(p) ==
  /\ pc'[p] # pc[p]
  /\ \/ pc[p] = "SetupRoutes.add"
     \/ op[p] \in {"list", "get"} /\ pc[p] = "read"
     \/ op[p] = "toggle" /\ pc[p] \in {"marshal", "respond"}

\* Goroutine p takes a step that writes the store.
StoreWrite(p) ==
  /\ pc'[p] # pc[p]
  /\ <<config, pluginsDir, plugins>>' # <<config, pluginsDir, plugins>>

\* C26: a step that writes the store is taken by the goroutine holding the
\* write lock, or takes the free lock for the step; a step that reads the
\* store is taken when no other goroutine holds the write lock, as a holder
\* of the read or write lock would take it.
C26_StoreAccessLocked ==
  [][\A p \in Procs :
       /\ StoreWrite(p) => mutex \in {Unlocked, p}
       /\ StoreRead(p) => mutex \in {Unlocked, p}]_vars

\* The watcher has made the loads of an event and not yet started the
\* rebuild of that event.
WatcherLoaded ==
  /\ op[Watcher] \in {"watch_cfg", "watch_plg"}
  /\ pc[Watcher] = "SetupRoutes"

\* C27: a write or create event for the configuration file makes the
\* watcher load the configuration, then rescan the plugins, then rebuild; a
\* write, create or remove event for a .json path in the plugins directory
\* makes it rescan, then rebuild (a load that fails ends the sequence as the
\* code's error handling says); and between the loads of an event and its
\* rebuild nobody else changes the store, so the rebuild compiles the store
\* these loads produced.
C27_WatcherSequence ==
  [][ /\ (pc[Watcher] = "wait" /\ pc'[Watcher] # "wait")
           => LET e == loc'[Watcher].event IN
              IF e.name = configPath /\ e.op \in {"write", "create"}
                THEN op'[Watcher] = "watch_cfg" /\ pc'[Watcher] = "LoadConfig"
                ELSE op'[Watcher] = "watch" /\ pc'[Watcher] = "check_plugin"
      /\ (pc[Watcher] = "check_plugin" /\ pc'[Watcher] # "check_plugin")
           => LET e == loc[Watcher].event IN
              IF /\ e.name.dir = pluginsDir /\ e.name.json
                 /\ e.op \in {"write", "create", "remove"}
                THEN op'[Watcher] = "watch_plg" /\ pc'[Watcher] = "LoadPlugins"
                ELSE pc'[Watcher] = "wait"
      /\ (op[Watcher] = "watch_cfg" /\ pc'[Watcher] # pc[Watcher])
           => <<pc[Watcher], pc'[Watcher]>> \in
                {<<"LoadConfig", "LoadPlugins">>, <<"LoadConfig", "check_plugin">>,
                 <<"LoadPlugins", "LoadPlugins.scan">>, <<"LoadPlugins.scan", "SetupRoutes">>,
                 <<"SetupRoutes", "SetupRoutes.add">>, <<"SetupRoutes.add", "check_plugin">>}
      /\ (op[Watcher] = "watch_plg" /\ pc'[Watcher] # pc[Watcher])
           => <<pc[Watcher], pc'[Watcher]>> \in
                {<<"LoadPlugins", "LoadPlugins.scan">>, <<"LoadPlugins.scan", "SetupRoutes">>,
                 <<"LoadPlugins.scan", "wait">>,
                 <<"SetupRoutes", "SetupRoutes.add">>, <<"SetupRoutes.add", "wait">>}
      /\ (WatcherLoaded /\ pc'[Watcher] = pc[Watcher])
           => UNCHANGED <<config, pluginsDir, plugins>>
    ]_vars

\* ------------------------------------------------- the watcher on its own

\* A started server with nothing but its watcher at work: Start has loaded
\* the configuration and the plugins, compiled, started the watcher and is
\* serving; files of the watched directories are written, removed and
\* touched from outside.

\* Paths in the watched directories that are neither the configuration file
\* nor a .json file of the plugins directory: a text file next to the
\* configuration file, a .json file next to it whose name starts with the
\* plugins directory's name, a text file in a plugins directory.
OtherPaths ==
  {Path(configDir, "notes", FALSE), Path(configDir, "plugins", TRUE),
   Path("plugins", "a", FALSE)}

\* The operations fsnotify reports.
EventOps == {"write", "create", "remove", "rename", "chmod"}

\* Something happens to a file of a watched directory that changes neither
\* the configuration file's content nor a plugin file's: another file is
\* written, created, removed, renamed or changed in mode, or the mode of the
\* configuration file or of a plugin file is changed.
OtherEvent(path, what) ==
  /\ ops > 0
  /\ path.dir \in watched
  /\ what \in EventOps
  /\ path \notin OtherPaths => what = "chmod"
  /\ ops' = ops - 1
  /\ events' = events \cup {Event(path, what)}
  /\ UNCHANGED <<config, pluginsDir, plugins, router, served, mutex, cfgFile, fs,
                 watched, op, pc, loc>>

WatchCfgDocs ==
  {ConfigDoc("", dir, <<EpBaseX>>) : dir \in {"", "test-plugins"}}

InitWatch ==
  /\ cfgFile = ConfigDoc("", "", <<EpBaseX>>)
  /\ config = ParseConfig(cfgFile)
  /\ pluginsDir = config.plugins_dir
  /\ \E files \in [FileBases -> UNION {DocsOf(b) : b \in FileBases} \cup {Absent}] :
       /\ \A b \in FileBases : files[b] \in DocsOf(b) \cup {Absent}
       /\ fs = [d \in LoadDirs |->
                  IF d = "plugins" THEN [kind |-> "dir", files |-> files]
                  ELSE [kind |-> "missing", files |-> [b \in FileBases |-> Absent]]]
  /\ plugins = ScanResult(pluginsDir).map
  /\ \E order \in Perms(DOMAIN plugins) : router = Compile(config, plugins, order)
  /\ served = [kind |-> "alias"]
  /\ mutex = Unlocked
  /\ watched = {configDir, pluginsDir}
  /\ events = {}
  /\ op = [p \in Procs |-> IF p = Main THEN "serve" ELSE IF p = Watcher THEN "watch" ELSE "idle"]
  /\ pc = [p \in Procs |-> IF p = Main THEN "serving" ELSE IF p = Watcher THEN "wait" ELSE "idle"]
  /\ loc = [p \in Procs |-> NoLoc]
  /\ ops = MaxOps

NextWatch ==
  \/ WatchReceive
  \/ WatchCheckPlugin
  \/ LoadConfig(Watcher)
  \/ LoadPluginsClear(Watcher)
  \/ LoadPluginsScan(Watcher)
  \/ SetupRoutesNew(Watcher)
  \/ SetupRoutesAdd(Watcher)
  \/ \E doc \in WatchCfgDocs \cup {Malformed} : EditConfig(doc)
  \/ \E d \in LoadDirs : \E b \in FileBases : \E doc \in DocsOf(b) :
       WritePluginFile(d, b, doc)
  \/ \E d \in LoadDirs : \E b \in FileBases : RemovePluginFile(d, b)
  \/ \E path \in OtherPaths \cup {configPath, Path("plugins", "a", TRUE)} :
       \E what \in EventOps : OtherEvent(path, what)

SpecWatch == InitWatch /\ [][NextWatch]_vars

\* Event e is one the watcher is to react to: a write or create of the
\* configuration file, or a write, create or remove of a .json file inside
\* the plugins directory dir.
Listed(e, dir) ==
  \/ e.name = configPath /\ e.op \in {"write", "create"}
  \/ e.name.dir = dir /\ e.name.json /\ e.op \in {"write", "create", "remove"}

\* C28: when the watcher receives an event that is not a listed one, it goes
\* through its two tests and back to waiting without a load or a rebuild,
\* and configuration, plugin set and table stay as they are.
C28_UnrelatedIgnored ==
  [][ /\ (pc[Watcher] = "wait" /\ pc'[Watcher] # "wait"
          /\ ~Listed(loc'[Watcher].event, pluginsDir))
           => /\ pc'[Watcher] = "check_plugin"
              /\ UNCHANGED <<config, pluginsDir, plugins, router>>
      /\ (pc[Watcher] = "check_plugin" /\ pc'[Watcher] # "check_plugin"
          /\ ~Listed(loc[Watcher].event, pluginsDir))
           => /\ pc'[Watcher] = "wait"
              /\ UNCHANGED <<config, pluginsDir, plugins, router>>
    ]_vars

\* Goroutine p is at a step that starts by taking the write lock or the
\* read lock.
WantsLock(p) ==
  \/ AtLock(p)
  \/ op[p] \in {"list", "get"} /\ pc[p] = "read"

\* The step goroutine p takes once it has the lock it wants.
LockedStep(p) ==
  \/ LoadConfig(p) \/ LoadPluginsClear(p) \/ SetupRoutesNew(p)
  \/ ToggleFlip(p) \/ ListPlugins(p) \/ GetPlugin(p)

\* C30: whoever holds the mutex is inside LoadPlugins or SetupRoutes, at a
\* step that asks for no lock and releases the one held, so nobody asks for
\* the mutex while holding it and nobody has returned from an operation with
\* it; with the mutex free every goroutine that wants it can take its step.
\* Hence the handlers and the watcher are never all blocked on the mutex.
C30_MutexReleased ==
  /\ mutex # Unlocked
       => /\ mutex \in Procs
          /\ pc[mutex] \in {"LoadPlugins.scan", "SetupRoutes.add"}
          /\ ~WantsLock(mutex)
          /\ ENABLED (LoadPluginsScan(mutex) \/ SetupRoutesAdd(mutex))
  /\ \A p \in Procs :
       pc[p] \in {"done", "idle", "wait", "check_plugin", "failed", "serving",
                  "respond", "marshal", "write", "spawn", "listen"}
         => mutex # p
  /\ mutex = Unlocked => \A p \in Procs : WantsLock(p) => ENABLED LockedStep(p)
  /\ ~(\A p \in Handlers \cup {Watcher} :
         WantsLock(p) /\ ~ENABLED LockedStep(p))

\* A reload whose rescan failed and a toggle of an unknown plugin have both
\* returned, and the mutex is free.
C30_Witness ==
  \E h, g \in Handlers :
    /\ op[h] = "reload" /\ pc[h] = "done" /\ loc[h].resp.kind = "reload_failed"
    /\ op[g] = "toggle" /\ pc[g] = "done" /\ loc[g].resp.kind = "plugin_not_found"
    /\ mutex = Unlocked

\* ------------------------------------------------ reloads under fairness

\* A started server whose watcher and handlers run under a fair scheduler:
\* every goroutine that can take a step eventually takes it, and a goroutine
\* waiting for the mutex eventually gets it when it is released again and
\* again (sync.Mutex hands a lock over to a waiter that has waited long).
\* Requests and file edits come as they please.

FairRequests ==
  {[method |-> "POST", path |-> <<"_admin", "plugins", "a", "toggle">>],
   [method |-> "POST", path |-> <<"_admin", "plugins", "nobody", "toggle">>],
   [method |-> "POST", path |-> <<"_admin", "reload">>]}

FairPluginDocs == {PluginDoc("", e, <<EpPlugX>>) : e \in BOOLEAN}

InitFair ==
  /\ cfgFile = ConfigDoc("", "", <<EpBaseX>>)
  /\ config = ParseConfig(cfgFile)
  /\ pluginsDir = config.plugins_dir
  /\ \E kind \in {"dir", "notdir"} : \E doc \in FairPluginDocs \cup {Absent} :
       /\ kind = "notdir" => doc = Absent
       /\ fs = [d \in Dirs |->
                  [kind |-> kind,
                   files |-> [b \in FileBases |-> IF b = "a" THEN doc ELSE Absent]]]
  /\ plugins = ScanResult(pluginsDir).map
  /\ \E order \in Perms(DOMAIN plugins) : router = Compile(config, plugins, order)
  /\ served = [kind |-> "alias"]
  /\ mutex = Unlocked
  /\ watched = {configDir, pluginsDir}
  /\ events = {}
  /\ op = [p \in Procs |-> IF p = Main THEN "serve" ELSE IF p = Watcher THEN "watch" ELSE "idle"]
  /\ pc = [p \in Procs |-> IF p = Main THEN "serving" ELSE IF p = Watcher THEN "wait" ELSE "idle"]
  /\ loc = [p \in Procs |-> NoLoc]
  /\ ops = MaxOps

NextFair ==
  \/ WatchReceive
  \/ WatchCheckPlugin
  \/ LoadConfig(Watcher)
  \/ \E p \in Handlers \cup {Watcher} : LoadPluginsClear(p)
  \/ \E p \in Handlers \cup {Watcher} : LoadPluginsScan(p)
  \/ \E p \in Handlers \cup {Watcher} : SetupRoutesNew(p)
  \/ \E p \in Handlers \cup {Watcher} : SetupRoutesAdd(p)
  \/ \E h \in Handlers : \E r \in FairRequests : Request(h, r.method, r.path)
  \/ \E h \in Handlers : ToggleFlip(h)
  \/ \E h \in Handlers : SavePluginMarshal(h)
  \/ \E h \in Handlers : SavePluginWrite(h)
  \/ \E h \in Handlers : ToggleRespond(h)
  \/ \E h \in Handlers : ReloadRespond(h)
  \/ \E h \in Handlers : Retire(h)
  \/ \E doc \in {Malformed, ConfigDoc("8080", "plugins", <<>>)} : EditConfig(doc)
  \/ \E d \in Dirs : \E doc \in FairPluginDocs : WritePluginFile(d, "a", doc)

\* The steps of the watcher and of a handler goroutine in this setting.
WatcherStep ==
  \/ WatchReceive \/ WatchCheckPlugin \/ LoadConfig(Watcher)
  \/ LoadPluginsClear(Watcher) \/ LoadPluginsScan(Watcher)
  \/ SetupRoutesNew(Watcher) \/ SetupRoutesAdd(Watcher)

HandlerStep(h) ==
  \/ LoadPluginsClear(h) \/ LoadPluginsScan(h)
  \/ SetupRoutesNew(h) \/ SetupRoutesAdd(h)
  \/ ToggleFlip(h) \/ SavePluginMarshal(h) \/ SavePluginWrite(h)
  \/ ToggleRespond(h) \/ ReloadRespond(h) \/ Retire(h)

\* The scheduler's fairness to the goroutines, strong because a step that
\* takes the mutex is disabled whenever somebody else holds it; none to the
\* clients and editors.
Fairness ==
  /\ SF_vars(WatcherStep)
  /\ \A h \in Handlers : SF_vars(HandlerStep(h))

SpecFair == InitFair /\ [][NextFair]_vars /\ Fairness

\* Goroutine p has started a reload trigger and not yet entered its rebuild:
\* the watcher has matched an event, a handler has begun POST /_admin/reload
\* or has flipped the flag of a loaded plugin.
Triggered(p) ==
  \/ /\ p = Watcher /\ op[p] \in {"watch_cfg", "watch_plg"}
     /\ pc[p] # "SetupRoutes.add"
  \/ op[p] = "reload" /\ pc[p] \in {"LoadPlugins", "LoadPlugins.scan", "SetupRoutes"}
  \/ op[p] = "toggle" /\ pc[p] \in {"marshal", "write", "SetupRoutes"}

\* Goroutine p is inside the SetupRoutes of its trigger, with the lock.
InRebuild(p) == op[p] \in ReloadOps /\ pc[p] = "SetupRoutes.add"

\* The SetupRoutes of p's trigger has returned.
Rebuilt(p) ==
  IF p = Watcher THEN op[p] = "watch"
  ELSE op[p] \in {"reload", "toggle"} /\ pc[p] = "respond"

\* The trigger of p has ended on a load that failed: the watcher is back in
\* its tests with the configuration file unparseable or the plugins
\* directory unreadable, the reload handler has answered 500.
LoadFailed(p) ==
  IF p = Watcher
    THEN op[p] = "watch" /\ (ConfigUnreadable \/ DirKind(pluginsDir) = "notdir")
    ELSE op[p] = "reload" /\ pc[p] = "done" /\ loc[p].resp.kind = "reload_failed"

\* C21 (a failed load ends the trigger): under fair scheduling every reload
\* trigger that has started reaches its own rebuild, however often it finds
\* the mutex taken, unless one of its loads fails; and a rebuild that was
\* entered returns.
C21_TriggerRebuilds ==
  \A p \in Handlers \cup {Watcher} :
    /\ Triggered(p) ~> (InRebuild(p) \/ LoadFailed(p))
    /\ InRebuild(p) ~> Rebuilt(p)

\* C21 (every trigger rebuilds): under fair scheduling every reload trigger
\* that has started reaches its own rebuild.
C21_EveryTriggerRebuilds ==
  \A p \in Handlers \cup {Watcher} : Triggered(p) ~> InRebuild(p)

\* A toggle has been through its rebuild while the watcher, which matched
\* the event of the file the toggle wrote, waits for the mutex another
\* handler's reload holds.
C21_Witness ==
  \E h, g \in Handlers :
    /\ op[h] = "toggle" /\ pc[h] = "respond"
    /\ op[Watcher] = "watch_plg" /\ pc[Watcher] \in {"LoadPlugins", "SetupRoutes"}
    /\ mutex = g /\ op[g] = "reload"

\* ------------------------------------------- reloads over a failing directory

\* The plugins directory stops being readable as a directory (its mode is
\* changed, or a file takes its place): os.ReadDir fails from now on and
\* os.WriteFile into it too.  The watcher of the directory above it gets the
\* event of the change.
DirUnreadable(dir) ==
  /\ ops > 0
  /\ watched # {}
  /\ DirKind(dir) = "dir"
  /\ ops' = ops - 1
  /\ fs' = [fs EXCEPT ![dir].kind = "notdir"]
  /\ events' = Notify(Path(configDir, dir, FALSE), "chmod")
  /\ UNCHANGED <<config, pluginsDir, plugins, router, served, mutex, cfgFile,
                 watched, op, pc, loc>>

\* The started server of the fair setting, without an assumption on the
\* scheduler, and with a plugins directory that can become unreadable.
NextRescan ==
  \/ NextFair
  \/ \E d \in Dirs : DirUnreadable(d)

SpecRescan == InitFair /\ [][NextRescan]_vars

\* Goroutine p runs the rescan of POST /_admin/reload or of a plugin-file
\* event.
Rescanning(p) ==
  /\ op[p] \in {"reload", "watch_plg"}
  /\ pc[p] \in {"LoadPlugins", "LoadPlugins.scan"}

\* C31: a rescan of POST /_admin/reload or of a plugin-file event that finds
\* the plugins directory unreadable changes neither the plugin set nor the
\* installed table at any of its steps, and ends without a rebuild: the
\* handler answers 500, the watcher goes back to its loop.
C31_FailedRescanKeepsStore ==
  [][\A p \in Procs :
       ( /\ Rescanning(p) /\ pc'[p] # pc[p]
         /\ DirKind(pluginsDir) = "notdir" )
         => /\ plugins' = plugins
            /\ router' = router
            /\ pc[p] = "LoadPlugins.scan"
                 => /\ mutex' = Unlocked
                    /\ op[p] = "reload"
                         => /\ pc'[p] = "done"
                            /\ loc'[p].resp.status = StatusInternalServerError
                    /\ p = Watcher => pc'[p] = "wait"]_vars

\* No operation is in progress and every filesystem event has been
\* processed: the server is serving, the watcher waits with nothing pending,
\* no handler is at work and the mutex is free.
AllQuiet ==
  /\ pc[Main] = "serving"
  /\ pc[Watcher] = "wait" /\ events = {}
  /\ HandlersQuiet
  /\ mutex = Unlocked

\* Plugin n of the store has a file: a well-formed file of the plugins
\* directory loads under its name.
HasFile(n) ==
  /\ pluginsDir \in DOMAIN fs
  /\ \E b \in WellFormed(pluginsDir) : LoadedName(pluginsDir, b) = n

\* C32: when nothing is in progress and no event is pending, the enabled
\* flag of every loaded plugin is the enabled flag its file holds.
C32_FlagIsFilesFlag ==
  AllQuiet
    => \A n \in DOMAIN plugins :
         HasFile(n)
           => plugins[n].enabled = fs[pluginsDir].files[LastFileOf(pluginsDir, n)].enabled

\* The watcher specification with the scheduling of the watcher goroutine: it
\* blocks only on its event channel and on the mutex, so a step of it that is
\* enabled again and again is eventually taken.  The file system's changes
\* are under no obligation.
SpecWatchFair == InitWatch /\ [][NextWatch]_vars /\ SF_vars(WatcherStep)

\* The plugins directory that was configured when the watcher started.
StartPluginsDir == ParseConfig(ConfigDoc("", "", <<EpBaseX>>)).plugins_dir

\* The store is not what a scan of the configured plugins directory gives: a
\* .json file of that directory was written, created or removed since the
\* last rescan.
Stale == plugins # ScanResult(pluginsDir).map

\* The store is a scan of the plugins directory and the installed table is
\* compiled from it.
RescannedAndRebuilt ==
  /\ ~Stale
  /\ \E order \in Perms(DOMAIN plugins) : router = Compile(config, plugins, order)

\* C33: once a configuration reload has changed the plugins directory and the
\* watcher waits again, a change of a .json file in the new directory is
\* eventually followed by a rescan and a rebuild.
C33_NewDirRescanned ==
  (pluginsDir # StartPluginsDir /\ pc[Watcher] = "wait" /\ Stale)
    ~> RescannedAndRebuilt

\* Goroutine p is in SetupRoutes: about to take the lock, or filling the new
\* table from ms.config.Endpoints and the plugins.
Compiling(p) == pc[p] \in {"SetupRoutes", "SetupRoutes.add"}

\* C34: SetupRoutes never runs while the base configuration is unset, and
\* once the server listens the configuration stays set.
C34_ConfigSetAtCompile ==
  /\ \A p \in Procs : Compiling(p) => config # None
  /\ served # None => config # None

\* A handler compiles after the watcher has failed to reload a configuration
\* file that is still unreadable.
C34_Witness ==
  /\ \E h \in Handlers : pc[h] = "SetupRoutes.add"
  /\ ConfigUnreadable
  /\ pc[Watcher] = "wait" /\ events = {}
  /\ loc[Watcher].event # None
  /\ loc[Watcher].event.name = configPath
  /\ config # None

====
